---- MODULE Spec2Model ----
(***************************************************************************)
(* FixFlow: the file-backed debt store (StorageService), the lifecycle     *)
(* rules on top of it (DebtService) and the advisory lock marker.          *)
(*                                                                         *)
(* The file system is the shared state: the storage directory, debts.json, *)
(* the .lock marker and the backup copies.  Every StorageService instance  *)
(* adds its private isLocked flag.  The pure operators below compute what  *)
(* one call does to that state.  Spec runs whole DebtService calls of one   *)
(* instance; SpecStore runs whole StorageService calls of one instance     *)
(* against an external writer and another process's marker; SpecConc runs  *)
(* two instances step by step.                                             *)
(***************************************************************************)
EXTENDS Integers, Sequences, FiniteSets, TLC

(***************************************************************************)
(* Bounds of the model                                                     *)
(***************************************************************************)
MaxTicks == 1          \* how often the clock advances
MaxDebts == 2          \* entries a document may hold in the model
MaxBackups == 1        \* backup copies after which the external writer rests

(***************************************************************************)
(* Program constants                                                       *)
(***************************************************************************)
StaleThreshold == 30000        \* acquireLock: lockAge < 30000
MaxTitleLength == 100          \* validateDebtEntry
MaxDescriptionLength == 500    \* validateDebtEntry

TickStep == StaleThreshold     \* the clock advances by one threshold

Procs == {1, 2}                \* StorageService instances (process ids)

(***************************************************************************)
(* Values                                                                  *)
(***************************************************************************)
\* DebtStatus
Statuses == {"open", "in-progress", "review", "resolved", "closed"}

\* A string is kept by what the code looks at: its length and whether
\* trim() leaves nothing.
Str(n, blank) == [len |-> n, ws |-> blank]
EmptyStr == Str(0, TRUE)
Trimmed(s) == IF s.ws THEN EmptyStr ELSE s

\* A timestamp value is a Date object in memory and an ISO string once it
\* has been through JSON.stringify.
DateObj(t) == [kind |-> "date", t |-> t]
IsoStr(t) == [kind |-> "iso", t |-> t]

\* Math.random().toString(36).substring(2, 8): the suffixes the model draws.
RandomSuffixes == {"k3x9qa", "i"}

\* generateDebtId: `${DEFAULTS.DEBT_ID_PREFIX}-${timestamp}-${random}`, kept as
\* its three parts; BlankId is the empty string.
DebtIdPrefix == "debt"
MkDebtId(timestamp, random) ==
  [prefix |-> DebtIdPrefix, ts |-> timestamp, rnd |-> random]
BlankId == [prefix |-> "", ts |-> 0, rnd |-> ""]

Includes(seq, x) == \E i \in 1..Len(seq) : seq[i] = x

\* Array.prototype.findIndex: first index whose entry has the id, 0 if none
\* (the code's -1).
FindIndex(debts, id) ==
  IF \E i \in 1..Len(debts) : debts[i].id = id
  THEN CHOOSE i \in 1..Len(debts) :
         /\ debts[i].id = id
         /\ \A j \in 1..(i - 1) : debts[j].id # id
  ELSE 0

\* Array.prototype.splice(index, 1)
Splice(debts, i) ==
  [j \in 1..(Len(debts) - 1) |-> IF j < i THEN debts[j] ELSE debts[j + 1]]

\* { ...a, ...b }
Merge(a, b) ==
  [f \in (DOMAIN a) \cup (DOMAIN b) |-> IF f \in DOMAIN b THEN b[f] ELSE a[f]]

(***************************************************************************)
(* Documents and files                                                     *)
(***************************************************************************)
\* validateDebtStructure's requiredFields
RequiredFields ==
  <<"id", "title", "description", "filePath", "lineNumber", "severity",
    "category", "status", "priority">>

DefaultTemplate == "fix: update technical debt - {count} items"

DefaultSettings ==
  [githubIntegration |-> FALSE, autoCommit |-> FALSE, autoPush |-> FALSE,
   commitMessageTemplate |-> DefaultTemplate]

\* A parsed JSON value as validateDataStructure sees it: whether it is an
\* object, whether debts is an array, whether metadata and settings are
\* objects, and their content when they are.
MkData(debts, metadata, settings) ==
  [isObject |-> TRUE, debtsIsArray |-> TRUE, hasMetadata |-> TRUE,
   hasSettings |-> TRUE, debts |-> debts, metadata |-> metadata,
   settings |-> settings]

MkMetadata(t, n) ==
  [version |-> "1.0.0", lastUpdated |-> IsoStr(t), totalDebts |-> n,
   projectName |-> "workspace"]

\* initialize: initialData
InitialData(now) == MkData(<<>>, MkMetadata(now, 0), DefaultSettings)

\* What JSON.parse returns when it is no object at all (null, a number).
NoData == [isObject |-> FALSE]

\* A file: absent, or bytes that JSON.parse rejects (told apart by bytes), or
\* the text of a JSON value (data).
NoFile == [exists |-> FALSE]
RawFile(b) == [exists |-> TRUE, parses |-> FALSE, bytes |-> b]
JsonFile(d) == [exists |-> TRUE, parses |-> TRUE, data |-> d]

\* The .lock marker: its mtime and the pid written into it.
NoLock == [exists |-> FALSE]
Marker(t, pid) == [exists |-> TRUE, mtime |-> t, owner |-> pid]

\* JSON.stringify(data, null, 2): Date objects become ISO strings.
StringifyTime(v) == IsoStr(v.t)

StringifyDebt(debt) ==
  [debt EXCEPT !.createdAt = StringifyTime(debt.createdAt),
               !.updatedAt = StringifyTime(debt.updatedAt)]

Stringify(data) ==
  [data EXCEPT !.debts = [i \in 1..Len(data.debts) |-> StringifyDebt(data.debts[i])]]

(***************************************************************************)
(* Validation                                                              *)
(***************************************************************************)
\* StorageService.validateDebtStructure: "ok" or the error thrown
validateDebtStructure(debt) ==
  IF \E i \in 1..Len(RequiredFields) : RequiredFields[i] \in debt.absent
    THEN "invalid-debt-structure"
  ELSE IF debt.id = BlankId
    THEN "invalid-debt-structure"
  ELSE IF Trimmed(debt.title).len = 0
    THEN "invalid-debt-structure"
  ELSE IF Trimmed(debt.filePath).len = 0
    THEN "invalid-debt-structure"
  ELSE IF debt.lineNumber < 1
    THEN "invalid-debt-structure"
  ELSE "ok"

\* StorageService.validateDataStructure: "ok" or the error thrown
validateDataStructure(data) ==
  IF ~data.isObject THEN "invalid-data-structure"
  ELSE IF ~data.debtsIsArray THEN "invalid-data-structure"
  ELSE IF ~data.hasMetadata THEN "invalid-data-structure"
  ELSE IF ~data.hasSettings THEN "invalid-data-structure"
  ELSE IF \E i \in 1..Len(data.debts) : validateDebtStructure(data.debts[i]) # "ok"
    THEN "invalid-debt-structure"
  ELSE "ok"

\* validateDebtEntry (utils): the list of error messages, as a set
validateDebtEntry(debt) ==
  (IF debt.title.len = 0 \/ Trimmed(debt.title).len = 0
     THEN {"Title is required"} ELSE {})
  \cup
  (IF debt.description.len = 0 \/ Trimmed(debt.description).len = 0
     THEN {"Description is required"} ELSE {})
  \cup
  (IF debt.filePath.len = 0 THEN {"File path is required"} ELSE {})
  \cup
  (IF "lineNumber" \in debt.absent \/ debt.lineNumber < 0
     THEN {"Valid line number is required"} ELSE {})
  \cup
  (IF debt.title.len > MaxTitleLength
     THEN {"Title must be 100 characters or less"} ELSE {})
  \cup
  (IF debt.description.len > MaxDescriptionLength
     THEN {"Description must be 500 characters or less"} ELSE {})

\* Does the file hold something readData rejects?
IsCorrupt(f) ==
  IF ~f.exists THEN FALSE
  ELSE IF ~f.parses THEN TRUE
  ELSE validateDataStructure(f.data) # "ok"

\* Does the file hold a document readData accepts?
IsValid(f) ==
  IF ~f.exists THEN FALSE
  ELSE IF ~f.parses THEN FALSE
  ELSE validateDataStructure(f.data) = "ok"

(***************************************************************************)
(* StorageService: what one call does to the file system.                  *)
(* w is the world the call runs in: the directory, the storage file, the   *)
(* marker, the backups, and the calling instance's isLocked flag.  Every   *)
(* operator returns [ok, err, w, ret]: the error thrown ("ok" when none),  *)
(* the world left behind and the value returned.                           *)
(***************************************************************************)
World(dir, file, lock, backups, locked) ==
  [dir |-> dir, file |-> file, lock |-> lock, backups |-> backups,
   isLocked |-> locked]

Outcome(err, w, ret) == [ok |-> err = "ok", err |-> err, w |-> w, ret |-> ret]

\* acquireLock without the age test: every marker refuses.
acquireLock_NoStale(w, now, pid) ==
  IF w.isLocked THEN Outcome("already-locked", w, NoData)
  ELSE IF w.lock.exists THEN Outcome("locked", w, NoData)
  ELSE IF ~w.dir THEN Outcome("io", w, NoData)
  ELSE Outcome("ok", [w EXCEPT !.lock = Marker(now, pid), !.isLocked = TRUE], NoData)

\* acquireLock with the age test lockAge <= 30000
acquireLock_Inclusive(w, now, pid) ==
  IF w.isLocked THEN Outcome("already-locked", w, NoData)
  ELSE IF w.lock.exists /\ now - w.lock.mtime <= StaleThreshold
    THEN Outcome("locked", w, NoData)
  ELSE IF ~w.dir
    THEN Outcome("io", w, NoData)
  ELSE Outcome("ok", [w EXCEPT !.lock = Marker(now, pid), !.isLocked = TRUE], NoData)

\* acquireLock
acquireLock(w, now, pid) ==
  IF w.isLocked THEN Outcome("already-locked", w, NoData)
  ELSE IF w.lock.exists /\ now - w.lock.mtime < StaleThreshold
    THEN Outcome("locked", w, NoData)
  ELSE IF ~w.dir
    THEN Outcome("io", w, NoData)     \* writeFileSync: no such directory
  ELSE Outcome("ok", [w EXCEPT !.lock = Marker(now, pid), !.isLocked = TRUE], NoData)

\* releaseLock without the isLocked test: the marker is removed whoever
\* created it.
releaseLock_Always(w) == [w EXCEPT !.lock = NoLock, !.isLocked = FALSE]

\* releaseLock
releaseLock(w) ==
  IF ~w.isLocked THEN w
  ELSE [w EXCEPT !.lock = NoLock, !.isLocked = FALSE]

\* readData: the try block (acquire; read; parse; validate)
readDataBody(a) ==
  IF ~a.ok THEN Outcome(a.err, a.w, NoData)
  ELSE IF ~a.w.file.exists THEN Outcome("file-not-found", a.w, NoData)
  ELSE IF ~a.w.file.parses THEN Outcome("parse", a.w, NoData)
  ELSE IF validateDataStructure(a.w.file.data) # "ok"
    THEN Outcome(validateDataStructure(a.w.file.data), a.w, NoData)
  ELSE Outcome("ok", a.w, a.w.file.data)

\* readData with the release after the body instead of in a finally block:
\* a failing body keeps the lock.
readData_ReleaseOnSuccess(w, now, pid) ==
  LET r == readDataBody(acquireLock(w, now, pid))
  IN  IF r.ok THEN [r EXCEPT !.w = releaseLock(r.w)] ELSE r

\* readData
readData(w, now, pid) ==
  LET r == readDataBody(acquireLock(w, now, pid))
  IN  [r EXCEPT !.w = releaseLock(r.w)]

\* Stamped with the recount left out: the caller's totalDebts is written.
Stamped_KeepCount(data, now) ==
  [data EXCEPT !.metadata.lastUpdated = IsoStr(now)]

\* writeData: what is written for data (metadata stamped and recounted)
Stamped(data, now) ==
  [data EXCEPT !.metadata.lastUpdated = IsoStr(now),
               !.metadata.totalDebts = Len(data.debts)]

writeDataBody(data, a, now) ==
  IF ~a.ok THEN Outcome(a.err, a.w, NoData)
  ELSE IF validateDataStructure(data) # "ok"
    THEN Outcome(validateDataStructure(data), a.w, NoData)
  ELSE Outcome("ok",
               [a.w EXCEPT !.dir = TRUE,
                           !.file = JsonFile(Stringify(Stamped(data, now)))],
               Stamped(data, now))

writeData(data, w, now, pid) ==
  LET r == writeDataBody(data, acquireLock(w, now, pid), now)
  IN  [r EXCEPT !.w = releaseLock(r.w)]

\* backupCorruptedFile: copyFileSync to `${storageFile}.backup.${Date.now()}`
backupCorruptedFile(w, now) ==
  IF w.file.exists
  THEN [w EXCEPT !.backups =
          {b \in w.backups : b.ts # now} \cup {[ts |-> now, content |-> w.file]}]
  ELSE w

\* validateStorageFile doing what its comment says ("backup the corrupted
\* file and create a new one") instead of throwing.
validateStorageFile_Repair(w, now) ==
  IF ~w.file.exists THEN Outcome("ok", w, NoData)
  ELSE IF IsCorrupt(w.file)
    THEN Outcome("ok",
                 [backupCorruptedFile(w, now) EXCEPT
                    !.file = JsonFile(Stringify(InitialData(now)))],
                 NoData)
  ELSE Outcome("ok", w, NoData)

\* validateStorageFile
validateStorageFile(w, now) ==
  IF ~w.file.exists THEN Outcome("ok", w, NoData)
  ELSE IF IsCorrupt(w.file)
    THEN Outcome("corrupted", backupCorruptedFile(w, now), NoData)
  ELSE Outcome("ok", w, NoData)

\* initialize without the existence test: the default document is written
\* on every call.
initialize_Reseed(w, now, pid) ==
  LET w1 == [w EXCEPT !.dir = TRUE]
      wr == writeData(InitialData(now), w1, now, pid)
  IN  IF ~wr.ok THEN wr ELSE validateStorageFile(wr.w, now)

\* initialize
initialize(w, now, pid) ==
  LET w1 == [w EXCEPT !.dir = TRUE]
      wr == IF ~w1.file.exists
            THEN writeData(InitialData(now), w1, now, pid)
            ELSE Outcome("ok", w1, NoData)
  IN  IF ~wr.ok THEN wr ELSE validateStorageFile(wr.w, now)

\* addDebt
addDebt(debt, random, w, now, pid) ==
  LET r == readData(w, now, pid)
      newDebt == Merge(debt, [id |-> MkDebtId(now, random),
                              createdAt |-> DateObj(now),
                              updatedAt |-> DateObj(now)])
      wr == writeData([r.ret EXCEPT !.debts = Append(@, newDebt)], r.w, now, pid)
  IN  IF ~r.ok THEN Outcome(r.err, r.w, <<>>)
      ELSE IF ~wr.ok THEN Outcome(wr.err, wr.w, <<>>)
      ELSE Outcome("ok", wr.w, <<newDebt>>)

\* updateDebt that removes the entry and appends the updated one.
updateDebt_Reappend(id, updates, w, now, pid) ==
  LET r == readData(w, now, pid)
      debtIndex == FindIndex(r.ret.debts, id)
      updatedDebt == Merge(Merge(r.ret.debts[debtIndex], updates),
                           [updatedAt |-> DateObj(now)])
      wr == writeData([r.ret EXCEPT
                         !.debts = Append(Splice(@, debtIndex), updatedDebt)],
                      r.w, now, pid)
  IN  IF ~r.ok THEN Outcome(r.err, r.w, <<>>)
      ELSE IF debtIndex = 0 THEN Outcome("debt-not-found", r.w, <<>>)
      ELSE IF ~wr.ok THEN Outcome(wr.err, wr.w, <<>>)
      ELSE Outcome("ok", wr.w, <<updatedDebt>>)

\* updateDebt
updateDebt(id, updates, w, now, pid) ==
  LET r == readData(w, now, pid)
      debtIndex == FindIndex(r.ret.debts, id)
      updatedDebt == Merge(Merge(r.ret.debts[debtIndex], updates),
                           [updatedAt |-> DateObj(now)])
      wr == writeData([r.ret EXCEPT !.debts[debtIndex] = updatedDebt], r.w, now, pid)
  IN  IF ~r.ok THEN Outcome(r.err, r.w, <<>>)
      ELSE IF debtIndex = 0 THEN Outcome("debt-not-found", r.w, <<>>)
      ELSE IF ~wr.ok THEN Outcome(wr.err, wr.w, <<>>)
      ELSE Outcome("ok", wr.w, <<updatedDebt>>)

\* deleteDebt that fills the gap with the last entry instead of closing it.
deleteDebt_SwapRemove(id, w, now, pid) ==
  LET r == readData(w, now, pid)
      debtIndex == FindIndex(r.ret.debts, id)
      n == Len(r.ret.debts)
      rest == [j \in 1..(n - 1) |->
                 IF j = debtIndex THEN r.ret.debts[n] ELSE r.ret.debts[j]]
      wr == writeData([r.ret EXCEPT !.debts = rest], r.w, now, pid)
  IN  IF ~r.ok THEN Outcome(r.err, r.w, <<>>)
      ELSE IF debtIndex = 0 THEN Outcome("debt-not-found", r.w, <<>>)
      ELSE IF ~wr.ok THEN Outcome(wr.err, wr.w, <<>>)
      ELSE Outcome("ok", wr.w, <<>>)

\* deleteDebt
deleteDebt(id, w, now, pid) ==
  LET r == readData(w, now, pid)
      debtIndex == FindIndex(r.ret.debts, id)
      wr == writeData([r.ret EXCEPT !.debts = Splice(@, debtIndex)], r.w, now, pid)
  IN  IF ~r.ok THEN Outcome(r.err, r.w, <<>>)
      ELSE IF debtIndex = 0 THEN Outcome("debt-not-found", r.w, <<>>)
      ELSE IF ~wr.ok THEN Outcome(wr.err, wr.w, <<>>)
      ELSE Outcome("ok", wr.w, <<>>)

\* getDebt: <<entry>>, or <<>> for null
getDebt(id, w, now, pid) ==
  LET r == readData(w, now, pid)
      debtIndex == FindIndex(r.ret.debts, id)
  IN  IF ~r.ok THEN Outcome(r.err, r.w, <<>>)
      ELSE IF debtIndex = 0 THEN Outcome("ok", r.w, <<>>)
      ELSE Outcome("ok", r.w, <<r.ret.debts[debtIndex]>>)

\* getAllDebts
getAllDebts(w, now, pid) ==
  LET r == readData(w, now, pid)
  IN  IF ~r.ok THEN Outcome(r.err, r.w, <<>>) ELSE Outcome("ok", r.w, r.ret.debts)

\* Array.prototype.filter with the callbacks of getDebtsByFile and
\* getDebtsByStatus: the entries whose field equals value, front to back.
RECURSIVE FilterBy(_, _, _)
FilterBy(debts, field, value) ==
  IF debts = <<>> THEN <<>>
  ELSE IF Head(debts)[field] = value
    THEN <<Head(debts)>> \o FilterBy(Tail(debts), field, value)
  ELSE FilterBy(Tail(debts), field, value)

\* getDebtsByFile without the filter: every entry is returned.
getDebtsByFile_All(filePath, w, now, pid) ==
  LET r == readData(w, now, pid)
  IN  IF ~r.ok THEN Outcome(r.err, r.w, <<>>) ELSE Outcome("ok", r.w, r.ret.debts)

\* getDebtsByFile
getDebtsByFile(filePath, w, now, pid) ==
  LET r == readData(w, now, pid)
  IN  IF ~r.ok THEN Outcome(r.err, r.w, <<>>)
      ELSE Outcome("ok", r.w, FilterBy(r.ret.debts, "filePath", filePath))

\* getDebtsByStatus
getDebtsByStatus(status, w, now, pid) ==
  LET r == readData(w, now, pid)
  IN  IF ~r.ok THEN Outcome(r.err, r.w, <<>>)
      ELSE Outcome("ok", r.w, FilterBy(r.ret.debts, "status", status))

\* updateSettings without the spread of the old settings: data.settings
\* becomes the partial object.
updateSettings_Replace(settings, w, now, pid) ==
  LET r == readData(w, now, pid)
      wr == writeData([r.ret EXCEPT !.settings = settings], r.w, now, pid)
  IN  IF ~r.ok THEN Outcome(r.err, r.w, <<>>)
      ELSE IF ~wr.ok THEN Outcome(wr.err, wr.w, <<>>)
      ELSE Outcome("ok", wr.w, <<>>)

\* updateSettings
updateSettings(settings, w, now, pid) ==
  LET r == readData(w, now, pid)
      wr == writeData([r.ret EXCEPT !.settings = Merge(@, settings)], r.w, now, pid)
  IN  IF ~r.ok THEN Outcome(r.err, r.w, <<>>)
      ELSE IF ~wr.ok THEN Outcome(wr.err, wr.w, <<>>)
      ELSE Outcome("ok", wr.w, <<>>)

\* isAccessible answering from the existence of the file alone.
isAccessible_Exists(w, now, pid) == Outcome("ok", w, w.dir /\ w.file.exists)

\* isAccessible: try { readData; return true } catch { return false }
isAccessible(w, now, pid) ==
  LET r == readData(w, now, pid)
  IN  Outcome("ok", r.w, r.ok)

(***************************************************************************)
(* DebtService                                                             *)
(***************************************************************************)
\* DebtService.allowedStatusTransitions
\* the table with every status in its own row
allowedStatusTransitions_Reflexive ==
  [from \in Statuses |->
     CASE from = "open" -> <<"open", "in-progress", "review", "resolved", "closed">>
       [] from = "in-progress" -> <<"in-progress", "review", "resolved", "open">>
       [] from = "review" -> <<"review", "resolved", "in-progress", "open">>
       [] from = "resolved" -> <<"resolved", "closed", "open">>
       [] from = "closed" -> <<"closed", "open">>]

\* the table with an empty row for closed
allowedStatusTransitions_ClosedTrap ==
  [from \in Statuses |->
     CASE from = "open" -> <<"in-progress", "review", "resolved", "closed">>
       [] from = "in-progress" -> <<"review", "resolved", "open">>
       [] from = "review" -> <<"resolved", "in-progress", "open">>
       [] from = "resolved" -> <<"closed", "open">>
       [] from = "closed" -> <<>>]

allowedStatusTransitions ==
  [from \in Statuses |->
     CASE from = "open" -> <<"in-progress", "review", "resolved", "closed">>
       [] from = "in-progress" -> <<"review", "resolved", "open">>
       [] from = "review" -> <<"resolved", "in-progress", "open">>
       [] from = "resolved" -> <<"closed", "open">>
       [] from = "closed" -> <<"open">>]

\* DebtService.createDebt
createDebt(debt, random, w, now, pid) ==
  IF validateDebtEntry(debt) # {} THEN Outcome("invalid-entry", w, <<>>)
  ELSE addDebt(debt, random, w, now, pid)

\* DebtService.updateDebt without the validation of the merged entry.
DebtService_updateDebt_Unvalidated(id, updates, w, now, pid) ==
  LET g == getDebt(id, w, now, pid)
  IN  IF ~g.ok THEN g
      ELSE IF g.ret = <<>> THEN Outcome("debt-not-found", g.w, <<>>)
      ELSE updateDebt(id, updates, g.w, now, pid)

\* DebtService.updateDebt
DebtService_updateDebt(id, updates, w, now, pid) ==
  LET g == getDebt(id, w, now, pid)
  IN  IF ~g.ok THEN g
      ELSE IF g.ret = <<>> THEN Outcome("debt-not-found", g.w, <<>>)
      ELSE IF validateDebtEntry(Merge(g.ret[1], updates)) # {}
        THEN Outcome("invalid-update", g.w, <<>>)
      ELSE updateDebt(id, updates, g.w, now, pid)

\* DebtService.deleteDebt
DebtService_deleteDebt(id, w, now, pid) == deleteDebt(id, w, now, pid)

\* transitionStatus without the whitelist test.
transitionStatus_Unchecked(id, newStatus, w, now, pid) ==
  LET g == getDebt(id, w, now, pid)
  IN  IF ~g.ok THEN g
      ELSE IF g.ret = <<>> THEN Outcome("debt-not-found", g.w, <<>>)
      ELSE updateDebt(id, [status |-> newStatus], g.w, now, pid)

\* DebtService.transitionStatus
transitionStatus(id, newStatus, w, now, pid) ==
  LET g == getDebt(id, w, now, pid)
      allowed == IF g.ret[1].status \in DOMAIN allowedStatusTransitions
                 THEN allowedStatusTransitions[g.ret[1].status]
                 ELSE <<>>
  IN  IF ~g.ok THEN g
      ELSE IF g.ret = <<>> THEN Outcome("debt-not-found", g.w, <<>>)
      ELSE IF ~Includes(allowed, newStatus)
        THEN Outcome("invalid-transition", g.w, <<>>)
      ELSE updateDebt(id, [status |-> newStatus], g.w, now, pid)

(***************************************************************************)
(* State                                                                   *)
(***************************************************************************)
VARIABLES
  dir,        \* does the .fixflow directory exist
  file,       \* debts.json
  lock,       \* the .lock marker
  backups,    \* the debts.json.backup.<ts> copies
  now,        \* Date.now()
  isLocked,   \* isLocked of every instance
  last,       \* the call that ended last: its name, arguments and error
  pc,         \* SpecConc: where every instance is in its call
  loc,        \* SpecConc: the locals of every instance's call
  staleSeen   \* SpecConc: has a marker ever been taken over as stale

vars == <<dir, file, lock, backups, now, isLocked, last, pc, loc, staleSeen>>

Self == 1     \* the instance whose calls Spec runs
Other == 2    \* the process behind a foreign marker

W(p) == World(dir, file, lock, backups, isLocked[p])

NoLocals == [err |-> "ok"]

Last(op, err, id, to) == [op |-> op, err |-> err, id |-> id, to |-> to]

Init ==
  /\ dir = FALSE
  /\ file = NoFile
  /\ lock = NoLock
  /\ backups = {}
  /\ now = 0
  /\ isLocked = [p \in Procs |-> FALSE]
  /\ last = Last("none", "ok", BlankId, "")
  /\ pc = [p \in Procs |-> "idle"]
  /\ loc = [p \in Procs |-> NoLocals]
  /\ staleSeen = FALSE

(***************************************************************************)
(* Whole calls of one instance                                             *)
(***************************************************************************)
\* The call of instance p ended with outcome r.
Ends(p, r, op, id, to) ==
  /\ dir' = r.w.dir
  /\ file' = r.w.file
  /\ lock' = r.w.lock
  /\ backups' = r.w.backups
  /\ isLocked' = [isLocked EXCEPT ![p] = r.w.isLocked]
  /\ last' = Last(op, r.err, id, to)
  /\ UNCHANGED <<now, pc, loc, staleSeen>>

\* Inputs
GoodTitle == Str(9, FALSE)
GoodDescription == Str(16, FALSE)
GoodPath == Str(7, FALSE)

DebtInput(title, lineNumber, status) ==
  [title |-> title, description |-> GoodDescription, filePath |-> GoodPath,
   lineNumber |-> lineNumber, status |-> status, absent |-> {}]

DebtInputs ==
  {DebtInput(GoodTitle, 1, "open"), DebtInput(GoodTitle, 0, "open"),
   DebtInput(Str(3, TRUE), 1, "open")}

MissingId == MkDebtId(0, "zzzzzz")

\* the ids a caller may name: those in the document, and one that is not
KnownIds ==
  {MissingId} \cup
  (IF IsValid(file) THEN {file.data.debts[i].id : i \in 1..Len(file.data.debts)}
   ELSE {})

Full == IsValid(file) /\ Len(file.data.debts) >= MaxDebts

Initialize ==
  \E p \in {Self} :
    Ends(p, initialize(W(p), now, p), "initialize", BlankId, "")

GetAllDebts ==
  \E p \in {Self} :
    Ends(p, getAllDebts(W(p), now, p), "getAllDebts", BlankId, "")

GetDebt ==
  \E id \in KnownIds :
    Ends(Self, getDebt(id, W(Self), now, Self), "getDebt", id, "")

CreateDebt ==
  /\ ~Full
  /\ \E debt \in DebtInputs, random \in RandomSuffixes :
       LET r == createDebt(debt, random, W(Self), now, Self)
       IN  Ends(Self, r, "createDebt",
                IF r.ok THEN r.ret[1].id ELSE BlankId, "")

DeleteDebt ==
  \E id \in KnownIds :
    Ends(Self, DebtService_deleteDebt(id, W(Self), now, Self), "deleteDebt", id, "")

TransitionStatus ==
  \E id \in KnownIds, to \in Statuses :
    Ends(Self, transitionStatus(id, to, W(Self), now, Self),
         "transitionStatus", id, to)

UpdateDebt ==
  \E id \in KnownIds, to \in Statuses :
    Ends(Self, DebtService_updateDebt(id, [status |-> to], W(Self), now, Self),
         "updateDebt", id, to)

Tick ==
  /\ now < MaxTicks * TickStep
  /\ now' = now + TickStep
  /\ last' = Last("tick", "ok", BlankId, "")
  /\ UNCHANGED <<dir, file, lock, backups, isLocked, pc, loc, staleSeen>>

(***************************************************************************)
(* Spec: the DebtService calls of one instance, and the clock              *)
(***************************************************************************)
Next ==
  \/ Initialize
  \/ GetAllDebts
  \/ GetDebt
  \/ CreateDebt
  \/ DeleteDebt
  \/ TransitionStatus
  \/ UpdateDebt
  \/ Tick

Spec == Init /\ [][Next]_vars

(***************************************************************************)
(* What the claims speak of                                                *)
(***************************************************************************)
\* The storage answers instance p: the document is valid, no marker younger
\* than the threshold is in the way and p holds no lock of its own.
Available(p) ==
  /\ dir
  /\ IsValid(file)
  /\ ~isLocked[p]
  /\ ~(lock.exists /\ now - lock.mtime < StaleThreshold)

Debts(f) == f.data.debts

(***************************************************************************)
(* SpecLife: the status changes of the entries of one document.  The       *)
(* document is one that createDebt calls at time 0 leave behind: one       *)
(* entry, two entries, or two entries whose ids collide.                   *)
(***************************************************************************)
CreatedAtZero(random, lineNumber) ==
  StringifyDebt(Merge(DebtInput(GoodTitle, lineNumber, "open"),
                      [id |-> MkDebtId(0, random),
                       createdAt |-> DateObj(0),
                       updatedAt |-> DateObj(0)]))

LifeDebts ==
  {<<CreatedAtZero("k3x9qa", 1)>>,
   <<CreatedAtZero("k3x9qa", 1), CreatedAtZero("i", 2)>>,
   <<CreatedAtZero("k3x9qa", 1), CreatedAtZero("k3x9qa", 2)>>}

InitLife ==
  /\ dir = TRUE
  /\ \E debts \in LifeDebts :
       file = JsonFile(Stringify(Stamped(MkData(debts, MkMetadata(0, 0), DefaultSettings), 0)))
  /\ lock = NoLock
  /\ backups = {}
  /\ now = 0
  /\ isLocked = [p \in Procs |-> FALSE]
  /\ last = Last("createDebt", "ok", MkDebtId(0, "k3x9qa"), "")
  /\ pc = [p \in Procs |-> "idle"]
  /\ loc = [p \in Procs |-> NoLocals]
  /\ staleSeen = FALSE

NextLife ==
  \/ TransitionStatus
  \/ UpdateDebt
  \/ GetDebt
  \/ Tick

SpecLife == InitLife /\ [][NextLife]_vars

(***************************************************************************)
(* Claims checked under SpecLife                                           *)
(***************************************************************************)
\* The whitelist as the specification's table states it.
WhitelistRow(from) ==
  CASE from = "open" -> {"in-progress", "review", "resolved", "closed"}
    [] from = "in-progress" -> {"review", "resolved", "open"}
    [] from = "review" -> {"resolved", "in-progress", "open"}
    [] from = "resolved" -> {"closed", "open"}
    [] from = "closed" -> {"open"}

\* C3: transitionStatus(id, to) on an entry whose status is from succeeds and
\* persists status = to exactly when to is in the whitelist row of from;
\* otherwise it fails with an invalid-transition error and the persisted
\* document is unchanged.
C3_TransitionWhitelist ==
  [][(/\ last'.op = "transitionStatus"
      /\ Available(Self)
      /\ FindIndex(Debts(file), last'.id) # 0)
     => LET i == FindIndex(Debts(file), last'.id)
            from == Debts(file)[i].status
        IN  IF last'.to \in WhitelistRow(from)
            THEN /\ last'.err = "ok"
                 /\ IsValid(file')
                 /\ Len(Debts(file')) = Len(Debts(file))
                 /\ Debts(file')[i].id = last'.id
                 /\ Debts(file')[i].status = last'.to
            ELSE /\ last'.err = "invalid-transition"
                 /\ file' = file]_vars

\* C3 witness: a transition to closed has succeeded and is persisted.
C3_Witness ==
  /\ last.op = "transitionStatus"
  /\ last.err = "ok"
  /\ last.to = "closed"
  /\ IsValid(file)
  /\ \E i \in 1..Len(Debts(file)) :
       Debts(file)[i].id = last.id /\ Debts(file)[i].status = "closed"

(***************************************************************************)
(* Claims checked under Spec                                               *)
(***************************************************************************)
\* C4: DebtService.updateDebt whose updates change the status to one outside
\* the whitelist row of the current status fails with an invalid-transition
\* error and leaves the persisted document unchanged.
C4_UpdateKeepsWhitelist ==
  [][(/\ last'.op = "updateDebt"
      /\ Available(Self)
      /\ FindIndex(Debts(file), last'.id) # 0
      /\ LET from == Debts(file)[FindIndex(Debts(file), last'.id)].status
         IN  last'.to # from /\ last'.to \notin WhitelistRow(from))
     => (last'.err = "invalid-transition" /\ file' = file)]_vars

\* C6: the ids of the persisted document are pairwise distinct and have the
\* form debt-<timestamp>-<suffix>, whatever the clock did between the calls.
C6_IdsUnique ==
  IsValid(file) =>
    /\ \A i, j \in 1..Len(Debts(file)) :
         i # j => Debts(file)[i].id # Debts(file)[j].id
    /\ \A i \in 1..Len(Debts(file)) :
         /\ Debts(file)[i].id.prefix = "debt"
         /\ Debts(file)[i].id.ts \in Nat
         /\ Debts(file)[i].id.rnd # ""
         /\ Debts(file)[i].id # BlankId

\* C7: a successful createDebt adds one entry, a successful deleteDebt
\* removes one, and a deleteDebt that follows a successful deleteDebt of the
\* same id fails with a not-found error and changes nothing.
C7_CountInvariant ==
  [][/\ (last'.op = "createDebt" /\ last'.err = "ok")
          => (IsValid(file) /\ IsValid(file')
              /\ Len(Debts(file')) = Len(Debts(file)) + 1)
     /\ (last'.op = "deleteDebt" /\ last'.err = "ok")
          => (IsValid(file) /\ IsValid(file')
              /\ Len(Debts(file')) = Len(Debts(file)) - 1)
     /\ (/\ last.op = "deleteDebt" /\ last.err = "ok"
         /\ last'.op = "deleteDebt" /\ last'.id = last.id)
          => (last'.err = "debt-not-found" /\ file' = file)]_vars

(***************************************************************************)
(* SpecStore: the StorageService calls of one instance, an external writer *)
(* of debts.json and another process's marker                              *)
(***************************************************************************)
ReadData ==
  \E p \in {Self} :
    Ends(p, readData(W(p), now, p), "readData", BlankId, "")

\* documents a caller hands to writeData: a count that is wrong, and a
\* value whose debts is no array
WriteInputs ==
  {MkData(<<>>, MkMetadata(0, 7), DefaultSettings),
   [isObject |-> TRUE, debtsIsArray |-> FALSE]}
  \cup
  (IF IsValid(file)
   THEN {[file.data EXCEPT !.metadata.totalDebts = Len(file.data.debts) + 1]}
   ELSE {})

WriteData ==
  \E data \in WriteInputs :
    Ends(Self, writeData(data, W(Self), now, Self), "writeData", BlankId, "")

AddDebt ==
  /\ ~Full
  /\ \E debt \in {DebtInput(GoodTitle, 1, "open"), DebtInput(GoodTitle, 0, "open")} :
       LET r == addDebt(debt, "k3x9qa", W(Self), now, Self)
       IN  Ends(Self, r, "addDebt", IF r.ok THEN r.ret[1].id ELSE BlankId, "")

StorageUpdateDebt ==
  \E id \in KnownIds :
    Ends(Self, updateDebt(id, [status |-> "resolved"], W(Self), now, Self),
         "updateDebt", id, "resolved")

UpdateSettings ==
  \E settings \in {[githubIntegration |-> TRUE, autoCommit |-> TRUE]} :
    Ends(Self, updateSettings(settings, W(Self), now, Self),
         "updateSettings", BlankId, "")

IsAccessible ==
  /\ pc[Self] = "idle"
  /\ LET r == isAccessible(W(Self), now, Self)
     IN  Ends(Self, r, "isAccessible", BlankId, IF r.ret THEN "true" ELSE "false")

\* what the external writer leaves in debts.json: text that does not parse,
\* and JSON whose debts is no array
Garbage == {RawFile(1), JsonFile([isObject |-> TRUE, debtsIsArray |-> FALSE])}

ExternalWrite ==
  /\ dir
  /\ Cardinality(backups) < MaxBackups
  /\ \E f \in Garbage : file' = f
  /\ last' = Last("external", "ok", BlankId, "")
  /\ UNCHANGED <<dir, lock, backups, now, isLocked, pc, loc, staleSeen>>

ExternalRemove ==
  /\ IsCorrupt(file)
  /\ file' = NoFile
  /\ last' = Last("external", "ok", BlankId, "")
  /\ UNCHANGED <<dir, lock, backups, now, isLocked, pc, loc, staleSeen>>

\* another process creates its marker, and removes it
ForeignLock ==
  /\ dir
  /\ ~lock.exists
  /\ lock' = Marker(now, Other)
  /\ last' = Last("external", "ok", BlankId, "")
  /\ UNCHANGED <<dir, file, backups, now, isLocked, pc, loc, staleSeen>>

ForeignUnlock ==
  /\ lock.exists
  /\ lock.owner = Other
  /\ lock' = NoLock
  /\ last' = Last("external", "ok", BlankId, "")
  /\ UNCHANGED <<dir, file, backups, now, isLocked, pc, loc, staleSeen>>

NextStore ==
  \/ Initialize
  \/ ReadData
  \/ WriteData
  \/ AddDebt
  \/ StorageUpdateDebt
  \/ DeleteDebt
  \/ GetAllDebts
  \/ GetDebt
  \/ UpdateSettings
  \/ IsAccessible
  \/ Tick
  \/ ExternalWrite
  \/ ExternalRemove
  \/ ForeignLock
  \/ ForeignUnlock

SpecStore == Init /\ [][NextStore]_vars

(***************************************************************************)
(* Claims checked under SpecStore                                          *)
(***************************************************************************)
\* the calls that end in writeData
C5_WriteOps ==
  {"writeData", "addDebt", "updateDebt", "deleteDebt", "updateSettings"}

\* C5: after a successful writeData, called directly or through addDebt,
\* updateDebt, deleteDebt, updateSettings or initialize, the persisted
\* document has metadata.totalDebts = number of entries in debts.
C5_TotalDebts ==
  [][(/\ last'.err = "ok"
      /\ \/ last'.op \in C5_WriteOps
         \/ last'.op = "initialize" /\ file' # file)
     => (/\ IsValid(file')
         /\ file'.data.metadata.totalDebts = Len(Debts(file')))]_vars

\* C5 witness: writeData was handed a document whose count was wrong and
\* has persisted it.
C5_Witness ==
  /\ last.op = "writeData"
  /\ last.err = "ok"
  /\ IsValid(file)
  /\ Len(Debts(file)) > 0

\* the errors with which readData rejects the content of the resource
C8_ContentErrors == {"parse", "invalid-data-structure", "invalid-debt-structure"}

\* C8: when readData finds the resource unparsable or structurally invalid
\* it fails, and a backup copy holding the bytes of the resource exists.
C8_ReadBacksUp ==
  [][(/\ last'.op = "readData"
      /\ IsCorrupt(file)
      /\ last'.err \in C8_ContentErrors)
     => \E b \in backups' : b.content = file]_vars

\* the calls C9 names
C9_Ops ==
  {"initialize", "readData", "addDebt", "updateDebt", "deleteDebt",
   "updateSettings", "getAllDebts", "getDebt"}

C10_InitializeIdempotent ==
  [][last'.op = "initialize" =>
       /\ IsValid(file) => (last'.err = "ok" /\ file' = file)
       /\ (~file.exists /\ last'.err = "ok")
            => /\ IsValid(file')
               /\ Debts(file') = <<>>
               /\ file'.data.metadata.totalDebts = 0
               /\ file'.data.settings.githubIntegration = FALSE
               /\ file'.data.settings.autoCommit = FALSE
               /\ file'.data.settings.autoPush = FALSE
       /\ file' # file => ~file.exists]_vars

\* C10 witness: initialize has run on a document that holds an entry.
C10_Witness ==
  /\ last.op = "initialize"
  /\ last.err = "ok"
  /\ IsValid(file)
  /\ Len(Debts(file)) > 0

(***************************************************************************)
(* SpecConc: two instances, each running one addDebt call, one file-system *)
(* step at a time.  A call is readData then writeData; each of them is     *)
(* acquireLock (existence check, stat, unlink of a stale marker, creation  *)
(* of the marker), the access to debts.json, and releaseLock.              *)
(***************************************************************************)
InitConc ==
  /\ dir = TRUE
  /\ file = JsonFile(Stringify(Stamped(InitialData(0), 0)))
  /\ lock = NoLock
  /\ backups = {}
  /\ now = 0
  /\ isLocked = [p \in Procs |-> FALSE]
  /\ last = Last("initialize", "ok", BlankId, "")
  /\ pc = [p \in Procs |-> "idle"]
  /\ loc = [p \in Procs |-> NoLocals]
  /\ staleSeen = FALSE

Goto(p, label) == pc' = [pc EXCEPT ![p] = label]

\* the exception err is thrown inside the try block: the finally block runs
Throw(p, err) ==
  /\ loc' = [loc EXCEPT ![p].err = err]
  /\ Goto(p, "release")

\* addDebt is called: readData starts
Begin(p) ==
  /\ pc[p] = "idle"
  /\ loc' = [loc EXCEPT ![p] = [phase |-> "read", err |-> "ok"]]
  /\ Goto(p, "check")
  /\ UNCHANGED <<dir, file, lock, backups, now, isLocked, last, staleSeen>>

\* acquireLock: if (this.isLocked) throw; if (fs.existsSync(this.lockFile))
AcqCheck(p) ==
  /\ pc[p] = "check"
  /\ IF isLocked[p] THEN Throw(p, "already-locked")
     ELSE /\ Goto(p, IF lock.exists THEN "stat" ELSE "create")
          /\ UNCHANGED loc
  /\ UNCHANGED <<dir, file, lock, backups, now, isLocked, last, staleSeen>>

\* acquireLock: statSync and the age test
AcqStat(p) ==
  /\ pc[p] = "stat"
  /\ IF ~lock.exists THEN Throw(p, "io")
     ELSE IF now - lock.mtime < StaleThreshold THEN Throw(p, "locked")
     ELSE Goto(p, "unlink") /\ UNCHANGED loc
  /\ UNCHANGED <<dir, file, lock, backups, now, isLocked, last, staleSeen>>

\* acquireLock: unlinkSync of the stale marker
AcqUnlink(p) ==
  /\ pc[p] = "unlink"
  /\ IF ~lock.exists
     THEN Throw(p, "io") /\ UNCHANGED lock
     ELSE Goto(p, "create") /\ lock' = NoLock /\ UNCHANGED loc
  /\ UNCHANGED <<dir, file, backups, now, isLocked, last, staleSeen>>

\* acquireLock: writeFileSync of the marker, this.isLocked = true
AcqCreate(p) ==
  /\ pc[p] = "create"
  /\ lock' = Marker(now, p)
  /\ isLocked' = [isLocked EXCEPT ![p] = TRUE]
  /\ Goto(p, "body")
  /\ UNCHANGED <<dir, file, backups, now, last, loc, staleSeen>>

\* readData between acquireLock and the finally block
ReadFile(p) ==
  /\ pc[p] = "body"
  /\ loc[p].phase = "read"
  /\ LET r == readDataBody(Outcome("ok", W(p), NoData))
     IN  loc' = [loc EXCEPT ![p] = [phase |-> "read", err |-> r.err, data |-> r.ret]]
  /\ Goto(p, "release")
  /\ UNCHANGED <<dir, file, lock, backups, now, isLocked, last, staleSeen>>

\* writeData between acquireLock and the finally block
WriteFile(p) ==
  /\ pc[p] = "body"
  /\ loc[p].phase = "write"
  /\ LET r == writeDataBody(loc[p].data, Outcome("ok", W(p), NoData), now)
     IN  /\ file' = r.w.file
         /\ loc' = [loc EXCEPT ![p].err = r.err]
  /\ Goto(p, "release")
  /\ UNCHANGED <<dir, lock, backups, now, isLocked, last, staleSeen>>

\* the finally block: releaseLock; then readData returns to addDebt, which
\* fails, or goes on to build the entry; writeData returns and addDebt ends
Release(p) ==
  /\ pc[p] = "release"
  /\ lock' = releaseLock(W(p)).lock
  /\ isLocked' = [isLocked EXCEPT ![p] = FALSE]
  /\ Goto(p, IF loc[p].err # "ok" \/ loc[p].phase = "write" THEN "done" ELSE "push")
  /\ UNCHANGED <<dir, file, backups, now, last, loc, staleSeen>>

\* addDebt: newDebt is built and pushed; writeData starts
Push(p) ==
  /\ pc[p] = "push"
  /\ \E random \in RandomSuffixes :
       LET newDebt == Merge(DebtInput(GoodTitle, p, "open"),
                            [id |-> MkDebtId(now, random),
                             createdAt |-> DateObj(now),
                             updatedAt |-> DateObj(now)])
       IN  loc' = [loc EXCEPT ![p] =
                     [phase |-> "write", err |-> "ok",
                      data |-> [loc[p].data EXCEPT !.debts = Append(@, newDebt)],
                      debt |-> newDebt]]
  /\ Goto(p, "check")
  /\ UNCHANGED <<dir, file, lock, backups, now, isLocked, last, staleSeen>>

\* the clock; staleSeen remembers that a marker has reached the threshold
TickConc ==
  /\ now < MaxTicks * TickStep
  /\ now' = now + TickStep
  /\ staleSeen' = (staleSeen \/ (lock.exists /\ now' - lock.mtime >= StaleThreshold))
  /\ UNCHANGED <<dir, file, lock, backups, isLocked, last, pc, loc>>

NextConc ==
  \/ \E p \in Procs : Begin(p)
  \/ \E p \in Procs : AcqCheck(p)
  \/ \E p \in Procs : AcqStat(p)
  \/ \E p \in Procs : AcqUnlink(p)
  \/ \E p \in Procs : AcqCreate(p)
  \/ \E p \in Procs : ReadFile(p)
  \/ \E p \in Procs : WriteFile(p)
  \/ \E p \in Procs : Release(p)
  \/ \E p \in Procs : Push(p)
  \/ TickConc

SpecConc == InitConc /\ [][NextConc]_vars

(***************************************************************************)
(* Claims checked under SpecConc                                           *)
(***************************************************************************)
Holders == {p \in Procs : isLocked[p]}

\* C1: as long as no marker has reached the staleness threshold, at most
\* one instance is between a successful acquireLock and its releaseLock.
C1_MutualExclusion == ~staleSeen => Cardinality(Holders) <= 1

\* C2: when both addDebt calls have returned successfully, the persisted
\* document contains both new entries.
C2_NoLostUpdate ==
  (\A p \in Procs : pc[p] = "done" /\ loc[p].err = "ok")
    => /\ IsValid(file)
       /\ \A p \in Procs :
            \E i \in 1..Len(Debts(file)) : Debts(file)[i] = StringifyDebt(loc[p].debt)

(***************************************************************************)
(* SpecTrip: writeData and readData.  The document the caller handed to   *)
(* writeData and the document readData then returned are kept in the       *)
(* instance's locals.  addDebt hands writeData entries whose createdAt and *)
(* updatedAt are Date objects; entries that were read from the file carry  *)
(* ISO strings.                                                            *)
(***************************************************************************)
\* The call of instance p ended with outcome r and leaves locals behind.
EndsKeeping(p, r, op, locals) ==
  /\ dir' = r.w.dir
  /\ file' = r.w.file
  /\ lock' = r.w.lock
  /\ backups' = r.w.backups
  /\ isLocked' = [isLocked EXCEPT ![p] = r.w.isLocked]
  /\ last' = Last(op, r.err, BlankId, "")
  /\ loc' = [loc EXCEPT ![p] = locals]
  /\ UNCHANGED <<now, pc, staleSeen>>

\* an entry as addDebt builds it (asDate) or as JSON.parse returns it
TripDebt(random, asDate, status) ==
  Merge(DebtInput(GoodTitle, 1, status),
        [id |-> MkDebtId(0, random),
         createdAt |-> IF asDate THEN DateObj(0) ELSE IsoStr(0),
         updatedAt |-> IF asDate THEN DateObj(0) ELSE IsoStr(0)])

TripDebts ==
  {<<>>,
   <<TripDebt("k3x9qa", FALSE, "open")>>,
   <<TripDebt("k3x9qa", TRUE, "open")>>,
   <<TripDebt("k3x9qa", FALSE, "closed"), TripDebt("i", FALSE, "open")>>,
   <<TripDebt("k3x9qa", FALSE, "closed"), TripDebt("i", TRUE, "open")>>}

\* structurally valid documents, with right and wrong counts
TripDocs ==
  {MkData(debts, MkMetadata(0, n), settings) :
     debts \in TripDebts, n \in {0, 7},
     settings \in {DefaultSettings, [DefaultSettings EXCEPT !.autoCommit = TRUE]}}

\* entries that break one structural rule each
BadDebts ==
  {[TripDebt("i", FALSE, "open") EXCEPT !.absent = {"severity"}],
   [TripDebt("i", FALSE, "open") EXCEPT !.id = BlankId],
   [TripDebt("i", FALSE, "open") EXCEPT !.title = EmptyStr],
   [TripDebt("i", FALSE, "open") EXCEPT !.description = EmptyStr],
   [TripDebt("i", FALSE, "open") EXCEPT !.filePath = EmptyStr],
   [TripDebt("i", FALSE, "open") EXCEPT !.lineNumber = 0]}

\* documents that break one structural rule each: debts no array, metadata
\* or settings missing, one entry of BadDebts behind a good one
BadDocs ==
  {[isObject |-> TRUE, debtsIsArray |-> FALSE],
   [isObject |-> TRUE, debtsIsArray |-> TRUE, hasMetadata |-> FALSE,
    hasSettings |-> TRUE, debts |-> <<>>, settings |-> DefaultSettings],
   [isObject |-> TRUE, debtsIsArray |-> TRUE, hasMetadata |-> TRUE,
    hasSettings |-> FALSE, debts |-> <<>>, metadata |-> MkMetadata(0, 0)]}
  \cup
  {MkData(<<TripDebt("k3x9qa", FALSE, "open"), debt>>, MkMetadata(0, 2), DefaultSettings) :
     debt \in BadDebts}

TripWrite ==
  /\ pc[Self] = "idle"
  /\ \E data \in TripDocs \cup BadDocs :
       LET r == writeData(data, W(Self), now, Self)
       IN  EndsKeeping(Self, r, "writeData", [err |-> r.err, data |-> data])

TripRead ==
  /\ pc[Self] = "idle"
  /\ LET r == readData(W(Self), now, Self)
     IN  EndsKeeping(Self, r, "readData",
                     IF "data" \in DOMAIN loc[Self] /\ loc[Self].err = "ok" /\ r.ok
                     THEN [err |-> "ok", data |-> loc[Self].data, ret |-> r.ret]
                     ELSE loc[Self])

NextTrip ==
  \/ TripWrite
  \/ TripRead
  \/ Tick

SpecTrip == InitConc /\ [][NextTrip]_vars

\* C11: readData after writeData(d) returns a document whose debts and
\* settings equal those of d and whose metadata equals that of d except
\* lastUpdated and totalDebts.
C11_RoundTrip ==
  (last.op = "readData" /\ last.err = "ok" /\ "ret" \in DOMAIN loc[Self])
    => /\ loc[Self].ret.debts = loc[Self].data.debts
       /\ loc[Self].ret.settings = loc[Self].data.settings
       /\ loc[Self].ret.metadata.version = loc[Self].data.metadata.version
       /\ loc[Self].ret.metadata.projectName = loc[Self].data.metadata.projectName

(***************************************************************************)
(* The lock around one call (SpecStore)                                    *)
(***************************************************************************)
\* the StorageService calls that take the lock
LockingOps ==
  {"readData", "writeData", "addDebt", "updateDebt", "deleteDebt",
   "updateSettings", "getAllDebts", "getDebt"}

InitCrash ==
  /\ dir = TRUE
  /\ \E debts \in {<<>>, <<CreatedAtZero("i", 1)>>} :
       file = JsonFile(Stringify(Stamped(MkData(debts, MkMetadata(0, 0), DefaultSettings), 0)))
  /\ lock = Marker(0, Other)
  /\ backups = {}
  /\ now = 0
  /\ isLocked = [p \in Procs |-> FALSE]
  /\ last = Last("none", "ok", BlankId, "")
  /\ pc = [p \in Procs |-> "idle"]
  /\ loc = [p \in Procs |-> NoLocals]
  /\ staleSeen = FALSE

NextCrash ==
  \/ ReadData
  \/ WriteData
  \/ GetAllDebts
  \/ AddDebt
  \/ StorageUpdateDebt
  \/ DeleteDebt
  \/ UpdateSettings
  \/ Tick

\* time passes, and the instance calls again
SpecCrash ==
  InitCrash /\ [][NextCrash]_vars /\ WF_vars(Tick) /\ WF_vars(ReadData)

\* C13: once the marker of the stopped process has reached the staleness
\* threshold, the next call that takes the lock is not refused and removes
\* the marker; and the marker does not block the resource for ever.
C13_StaleLockRecovered ==
  /\ [][(/\ last'.op \in LockingOps
         /\ lock.exists /\ lock.owner = Other
         /\ now - lock.mtime >= StaleThreshold)
        => (last'.err # "locked" /\ ~lock'.exists)]_vars
  /\ (lock.exists /\ lock.owner = Other)
       ~> (~lock.exists /\ last.op \in LockingOps /\ last.err # "locked")

\* C13 witness: a call has succeeded after the threshold and the marker of
\* the stopped process is gone.
C13_Witness ==
  /\ last.op = "readData"
  /\ last.err = "ok"
  /\ now >= StaleThreshold
  /\ ~lock.exists

\* the calls C14 names
C14_Ops ==
  {"readData", "writeData", "addDebt", "updateDebt", "deleteDebt", "updateSettings"}

\* C14: while another process's marker younger than the staleness threshold
\* is in place, a readData, writeData, addDebt, updateDebt, deleteDebt or
\* updateSettings call fails with the lock error, and debts.json and the
\* marker are left as they were.
C14_ContentionChangesNothing ==
  [][(/\ last'.op \in C14_Ops
      /\ lock.exists /\ lock.owner = Other
      /\ now - lock.mtime < StaleThreshold)
     => (/\ last'.err = "locked"
         /\ file' = file
         /\ lock' = lock
         /\ backups' = backups
         /\ ~isLocked'[Self])]_vars

\* C14 witness: addDebt has been refused and the other process's marker is
\* still there.
C14_Witness ==
  /\ last.op = "addDebt"
  /\ last.err = "locked"
  /\ lock.exists
  /\ lock.owner = Other
  /\ IsValid(file)

(***************************************************************************)
(* SpecEntry: createDebt and DebtService.updateDebt with entries and       *)
(* partial updates on both sides of every validation rule, on storage that *)
(* another process may have locked.  The argument of the call is kept in   *)
(* the instance's locals.                                                  *)
(***************************************************************************)
\* title and description at their limits
BoundaryInput ==
  [DebtInput(Str(MaxTitleLength, FALSE), 1, "open") EXCEPT
     !.description = Str(MaxDescriptionLength, FALSE)]

EntryInputs ==
  {DebtInput(GoodTitle, 1, "open"),
   BoundaryInput,
   DebtInput(EmptyStr, 1, "open"),
   DebtInput(Str(3, TRUE), 1, "open"),
   DebtInput(Str(MaxTitleLength + 1, FALSE), 1, "open"),
   [DebtInput(GoodTitle, 1, "open") EXCEPT !.description = EmptyStr],
   [DebtInput(GoodTitle, 1, "open") EXCEPT
      !.description = Str(MaxDescriptionLength + 1, FALSE)],
   [DebtInput(GoodTitle, 1, "open") EXCEPT !.filePath = EmptyStr],
   [DebtInput(GoodTitle, 1, "open") EXCEPT !.filePath = Str(2, TRUE)],
   DebtInput(GoodTitle, 0, "open"),
   DebtInput(GoodTitle, -1, "open")}

EntryUpdates ==
  {[title |-> Str(MaxTitleLength, FALSE)],
   [title |-> EmptyStr],
   [title |-> Str(MaxTitleLength + 1, FALSE)],
   [description |-> EmptyStr],
   [description |-> Str(MaxDescriptionLength + 1, FALSE)],
   [filePath |-> EmptyStr],
   [lineNumber |-> 0],
   [lineNumber |-> -1]}

CreateChecked ==
  /\ ~Full
  /\ \E debt \in EntryInputs, random \in RandomSuffixes :
       LET r == createDebt(debt, random, W(Self), now, Self)
       IN  EndsKeeping(Self, r, "createDebt", [err |-> r.err, debt |-> debt])

UpdateChecked ==
  /\ pc[Self] = "idle"
  /\ \E id \in KnownIds, updates \in EntryUpdates :
       LET r == DebtService_updateDebt(id, updates, W(Self), now, Self)
       IN  EndsKeeping(Self, r, "updateDebt",
                       [err |-> r.err, id |-> id, updates |-> updates])

NextEntry ==
  \/ CreateChecked
  \/ UpdateChecked
  \/ ForeignLock
  \/ ForeignUnlock

SpecEntry == InitConc /\ [][NextEntry]_vars

\* the creation rules as the claims list them
BreaksCreationRule(debt) ==
  \/ Trimmed(debt.title).len = 0
  \/ Trimmed(debt.description).len = 0
  \/ Trimmed(debt.filePath).len = 0
  \/ debt.title.len > 100
  \/ debt.description.len > 500
  \/ debt.lineNumber < 1

\* the errors that report a rejected entry: DebtService's own, and the
\* storage layer's structural one
ValidationErrors == {"invalid-entry", "invalid-update", "invalid-debt-structure"}

\* C15: createDebt of an entry that breaks a creation rule fails with a
\* validation error and leaves debts.json unchanged; createDebt of any
\* other entry succeeds when the storage is available.
C15_CreateValidates ==
  [][last'.op = "createDebt" =>
       IF BreaksCreationRule(loc'[Self].debt)
       THEN last'.err \in ValidationErrors /\ file' = file
       ELSE Available(Self) =>
              /\ last'.err = "ok"
              /\ IsValid(file')
              /\ Len(Debts(file')) = Len(Debts(file)) + 1]_vars

\* C16: on available storage, DebtService.updateDebt fails with the
\* not-found error when no entry has the id, and with a validation error
\* when the entry merged with the partial fields breaks a creation rule; in
\* both cases debts.json is unchanged.
C16_UpdateValidates ==
  [][(last'.op = "updateDebt" /\ Available(Self)) =>
       LET i == FindIndex(Debts(file), loc'[Self].id)
       IN  IF i = 0
           THEN last'.err = "debt-not-found" /\ file' = file
           ELSE BreaksCreationRule(Merge(Debts(file)[i], loc'[Self].updates))
                  => (last'.err \in ValidationErrors /\ file' = file)]_vars

\* C16 witness: an update that makes the title too long has been rejected
\* and the entry is still in the document.
C16_Witness ==
  /\ last.op = "updateDebt"
  /\ last.err = "invalid-update"
  /\ loc[Self].updates = [title |-> Str(MaxTitleLength + 1, FALSE)]
  /\ IsValid(file)
  /\ FindIndex(Debts(file), loc[Self].id) # 0

(***************************************************************************)
(* The structural rules (SpecTrip)                                         *)
(***************************************************************************)
\* the structural rules as the claim lists them
BreaksStructure(data) ==
  IF ~data.isObject THEN TRUE
  ELSE IF ~data.debtsIsArray THEN TRUE
  ELSE IF ~data.hasMetadata \/ ~data.hasSettings THEN TRUE
  ELSE \E i \in 1..Len(data.debts) :
         \/ data.debts[i].absent # {}
         \/ data.debts[i].id = BlankId
         \/ Trimmed(data.debts[i].title).len = 0
         \/ Trimmed(data.debts[i].description).len = 0
         \/ Trimmed(data.debts[i].filePath).len = 0
         \/ data.debts[i].lineNumber < 1

\* C17: writeData rejects every document that breaks a structural rule and
\* leaves debts.json unchanged; so the persisted document never breaks one.
C17_WriteRejectsInvalid ==
  /\ [][(last'.op = "writeData" /\ BreaksStructure(loc'[Self].data))
        => (last'.err \in {"invalid-data-structure", "invalid-debt-structure"}
            /\ file' = file)]_vars
  /\ [](file.exists => (file.parses /\ ~BreaksStructure(file.data)))

(***************************************************************************)
(* The frame of an update (SpecLife)                                       *)
(***************************************************************************)
\* C18: a successful updateDebt or transitionStatus of the status of entry
\* e changes status and updatedAt of e and nothing else: e keeps its id,
\* its createdAt, its other fields and its position, every other entry and
\* the settings are unchanged.
C18_UpdateFrame ==
  [][(/\ last'.op \in {"updateDebt", "transitionStatus"}
      /\ last'.err = "ok")
     => LET i == FindIndex(Debts(file), last'.id)
        IN  /\ i # 0
            /\ IsValid(file')
            /\ Len(Debts(file')) = Len(Debts(file))
            /\ \A j \in 1..Len(Debts(file)) :
                 j # i => Debts(file')[j] = Debts(file)[j]
            /\ DOMAIN Debts(file')[i] = DOMAIN Debts(file)[i]
            /\ \A f \in DOMAIN Debts(file)[i] \ {"status", "updatedAt"} :
                 Debts(file')[i][f] = Debts(file)[i][f]
            /\ Debts(file')[i].status = last'.to
            /\ Debts(file')[i].updatedAt = IsoStr(now)
            /\ file'.data.settings = file.data.settings]_vars

\* C18 witness: the second of two entries has been updated after the clock
\* moved, and is still the second.
C18_Witness ==
  /\ last.op \in {"updateDebt", "transitionStatus"}
  /\ last.err = "ok"
  /\ IsValid(file)
  /\ Len(Debts(file)) = 2
  /\ Debts(file)[1].id # last.id
  /\ Debts(file)[2].id = last.id
  /\ Debts(file)[2].updatedAt # Debts(file)[2].createdAt

(***************************************************************************)
(* isAccessible (SpecStore)                                                *)
(***************************************************************************)
\* C19: isAccessible throws nothing; it returns true exactly when the
\* directory exists, debts.json holds a valid document and no marker
\* younger than the threshold is in the way, and false in every other case;
\* it leaves debts.json as it was.
C19_IsAccessible ==
  [][last'.op = "isAccessible"
     => /\ last'.err = "ok"
        /\ last'.to = (IF Available(Self) THEN "true" ELSE "false")
        /\ file' = file
        /\ ~isLocked'[Self]]_vars

\* C19 witness: isAccessible has answered false on a corrupt file.
C19_Witness ==
  /\ last.op = "isAccessible"
  /\ last.err = "ok"
  /\ last.to = "false"
  /\ IsCorrupt(file)

(***************************************************************************)
(* SpecOrder: one instance creates, updates and deletes entries and lists  *)
(* them.  The document may hold one entry more than elsewhere, so that a   *)
(* deletion leaves two entries whose order can be told.                    *)
(***************************************************************************)
MaxOrderDebts == MaxDebts + 1

OrderCreate ==
  /\ IsValid(file)
  /\ Len(Debts(file)) < MaxOrderDebts
  /\ \E random \in RandomSuffixes :
       LET r == createDebt(DebtInput(GoodTitle, 1, "open"), random, W(Self), now, Self)
       IN  Ends(Self, r, "createDebt", IF r.ok THEN r.ret[1].id ELSE BlankId, "")

OrderUpdate ==
  \E id \in KnownIds :
    Ends(Self, DebtService_updateDebt(id, [status |-> "in-progress"], W(Self), now, Self),
         "updateDebt", id, "in-progress")

OrderTransition ==
  \E id \in KnownIds :
    Ends(Self, transitionStatus(id, "in-progress", W(Self), now, Self),
         "transitionStatus", id, "in-progress")

NextOrder ==
  \/ OrderCreate
  \/ OrderUpdate
  \/ OrderTransition
  \/ DeleteDebt
  \/ GetAllDebts

SpecOrder == InitConc /\ [][NextOrder]_vars

\* C20: a successful createDebt puts the new entry behind the others, a
\* successful updateDebt or transitionStatus keeps every entry where it is,
\* a successful deleteDebt closes the gap and keeps the others in their
\* order, and getAllDebts returns the entries in the order of the document.
C20_InsertionOrder ==
  [][last'.err = "ok" =>
       /\ last'.op = "createDebt"
            => /\ Len(Debts(file')) = Len(Debts(file)) + 1
               /\ \A j \in 1..Len(Debts(file)) : Debts(file')[j] = Debts(file)[j]
               /\ Debts(file')[Len(Debts(file'))].id = last'.id
       /\ last'.op \in {"updateDebt", "transitionStatus"}
            => /\ Len(Debts(file')) = Len(Debts(file))
               /\ \A j \in 1..Len(Debts(file)) :
                    /\ Debts(file')[j].id = Debts(file)[j].id
                    /\ Debts(file')[j].createdAt = Debts(file)[j].createdAt
       /\ last'.op = "deleteDebt"
            => \E i \in 1..Len(Debts(file)) :
                 /\ Debts(file)[i].id = last'.id
                 /\ Len(Debts(file')) = Len(Debts(file)) - 1
                 /\ \A j \in 1..(i - 1) : Debts(file')[j] = Debts(file)[j]
                 /\ \A j \in i..Len(Debts(file')) : Debts(file')[j] = Debts(file)[j + 1]
       /\ last'.op = "getAllDebts"
            => /\ getAllDebts(W(Self), now, Self).ret = Debts(file)
               /\ file' = file]_vars

\* C20 witness: an entry in front of two others has been deleted; the two
\* that are left carry different ids, the twin of the deleted one last.
C20_Witness ==
  /\ last.op = "deleteDebt"
  /\ last.err = "ok"
  /\ IsValid(file)
  /\ Len(Debts(file)) = MaxOrderDebts - 1
  /\ Len(Debts(file)) >= 2
  /\ Debts(file)[1].id # Debts(file)[2].id
  /\ Debts(file)[2].id = last.id

(***************************************************************************)
(* SpecQuery: the queries of one instance on documents whose entries       *)
(* differ in id, filePath and status (entries createDebt stored at time 0, *)
(* some of them moved to closed since).  The argument and the value        *)
(* returned are kept in the instance's locals.                             *)
(***************************************************************************)
OtherPath == Str(12, FALSE)
NoSuchPath == Str(5, FALSE)

QueryDebt(random, filePath, status) ==
  [CreatedAtZero(random, 1) EXCEPT !.filePath = filePath, !.status = status]

QueryDebts ==
  {QueryDebt(random, filePath, status) :
     random \in RandomSuffixes, filePath \in {GoodPath, OtherPath},
     status \in {"open", "closed"}}

InitQuery ==
  /\ dir = TRUE
  /\ \E n \in 0..MaxDebts : \E debts \in [1..n -> QueryDebts] :
       file = JsonFile(Stringify(Stamped(MkData(debts, MkMetadata(0, 0), DefaultSettings), 0)))
  /\ lock = NoLock
  /\ backups = {}
  /\ now = 0
  /\ isLocked = [p \in Procs |-> FALSE]
  /\ last = Last("none", "ok", BlankId, "")
  /\ pc = [p \in Procs |-> "idle"]
  /\ loc = [p \in Procs |-> NoLocals]
  /\ staleSeen = FALSE

\* the query returned (or threw): its argument and result are kept
Answers(r, op, arg) ==
  EndsKeeping(Self, r, op, [err |-> r.err, arg |-> arg, ret |-> r.ret])

QueryGetDebt ==
  \E id \in KnownIds : Answers(getDebt(id, W(Self), now, Self), "getDebt", id)

QueryGetAllDebts ==
  \E arg \in {""} : Answers(getAllDebts(W(Self), now, Self), "getAllDebts", arg)

QueryByFile ==
  \E filePath \in {GoodPath, OtherPath, NoSuchPath} :
    Answers(getDebtsByFile(filePath, W(Self), now, Self), "getDebtsByFile", filePath)

QueryByStatus ==
  \E status \in {"open", "closed", "review"} :
    Answers(getDebtsByStatus(status, W(Self), now, Self), "getDebtsByStatus", status)

NextQuery ==
  \/ QueryGetDebt
  \/ QueryGetAllDebts
  \/ QueryByFile
  \/ QueryByStatus
  \/ ForeignLock
  \/ ForeignUnlock

SpecQuery == InitQuery /\ [][NextQuery]_vars

QueryOps == {"getDebt", "getAllDebts", "getDebtsByFile", "getDebtsByStatus"}

\* C21: a query leaves debts.json as it was; getDebt returns an entry with
\* exactly the id asked for, or null when there is none; getAllDebts returns
\* the entries of the document; getDebtsByFile and getDebtsByStatus return
\* exactly the entries whose filePath, respectively status, equals the
\* argument, in document order.
C21_Queries ==
  [][last'.op \in QueryOps =>
       /\ file' = file
       /\ last'.err = "ok" =>
            LET arg == loc'[Self].arg
                ret == loc'[Self].ret
            IN  /\ last'.op = "getDebt" =>
                     IF \E i \in 1..Len(Debts(file)) : Debts(file)[i].id = arg
                     THEN /\ Len(ret) = 1
                          /\ ret[1].id = arg
                          /\ \E i \in 1..Len(Debts(file)) : Debts(file)[i] = ret[1]
                     ELSE ret = <<>>
                /\ last'.op = "getAllDebts" => ret = Debts(file)
                /\ last'.op = "getDebtsByFile" =>
                     ret = SelectSeq(Debts(file), LAMBDA d : d.filePath = arg)
                /\ last'.op = "getDebtsByStatus" =>
                     ret = SelectSeq(Debts(file), LAMBDA d : d.status = arg)]_vars

\* C21 witness: getDebtsByFile has returned one of two entries, the second.
C21_Witness ==
  /\ last.op = "getDebtsByFile"
  /\ last.err = "ok"
  /\ Len(Debts(file)) = 2
  /\ loc[Self].ret = <<Debts(file)[2]>>
  /\ Debts(file)[1].filePath # loc[Self].arg

(***************************************************************************)
(* SpecSettings: updateSettings with several partial objects, on a         *)
(* document with and without an entry.  The partial object is kept in the  *)
(* instance's locals.                                                      *)
(***************************************************************************)
CustomTemplate == "custom: {count} items"

SettingsInputs ==
  {[githubIntegration |-> TRUE, autoCommit |-> TRUE,
    commitMessageTemplate |-> CustomTemplate],
   [autoPush |-> TRUE],
   [autoPush |-> FALSE, githubIntegration |-> FALSE],
   [autoCommit |-> FALSE],
   [commitMessageTemplate |-> DefaultTemplate, autoPush |-> TRUE]}

InitSettings ==
  /\ dir = TRUE
  /\ \E debts \in {<<>>, <<CreatedAtZero("i", 1)>>} :
       file = JsonFile(Stringify(Stamped(MkData(debts, MkMetadata(0, 0), DefaultSettings), 0)))
  /\ lock = NoLock
  /\ backups = {}
  /\ now = 0
  /\ isLocked = [p \in Procs |-> FALSE]
  /\ last = Last("initialize", "ok", BlankId, "")
  /\ pc = [p \in Procs |-> "idle"]
  /\ loc = [p \in Procs |-> NoLocals]
  /\ staleSeen = FALSE

SettingsUpdate ==
  /\ pc[Self] = "idle"
  /\ \E settings \in SettingsInputs :
       LET r == updateSettings(settings, W(Self), now, Self)
       IN  EndsKeeping(Self, r, "updateSettings", [err |-> r.err, settings |-> settings])

NextSettings ==
  \/ SettingsUpdate
  \/ Tick

SpecSettings == InitSettings /\ [][NextSettings]_vars

\* C22: a successful updateSettings(partial) gives every setting named in
\* partial its new value and leaves every other setting and every entry as
\* it was.
C22_SettingsFrame ==
  [][(last'.op = "updateSettings" /\ last'.err = "ok")
     => /\ IsValid(file')
        /\ DOMAIN file'.data.settings = DOMAIN file.data.settings
        /\ \A f \in DOMAIN file.data.settings :
             file'.data.settings[f] =
               IF f \in DOMAIN loc'[Self].settings
               THEN loc'[Self].settings[f]
               ELSE file.data.settings[f]
        /\ Debts(file') = Debts(file)]_vars

\* C22 witness: githubIntegration, autoCommit and the template have been
\* set while autoPush was true, and autoPush is still true.
C22_Witness ==
  /\ last.op = "updateSettings"
  /\ last.err = "ok"
  /\ "commitMessageTemplate" \in DOMAIN loc[Self].settings
  /\ file.data.settings.commitMessageTemplate = CustomTemplate
  /\ file.data.settings.githubIntegration
  /\ file.data.settings.autoPush
  /\ Len(Debts(file)) = 1

(***************************************************************************)
(* ScannerService.  A text is a sequence of characters, each a string of   *)
(* one character; BS stands for U+0008.                                    *)
(***************************************************************************)
BS == "U+0008"

LowerCase ==
  <<"a", "b", "c", "d", "e", "f", "g", "h", "i", "j", "k", "l", "m",
    "n", "o", "p", "q", "r", "s", "t", "u", "v", "w", "x", "y", "z">>

UpperCase ==
  <<"A", "B", "C", "D", "E", "F", "G", "H", "I", "J", "K", "L", "M",
    "N", "O", "P", "Q", "R", "S", "T", "U", "V", "W", "X", "Y", "Z">>

Upper(c) ==
  IF \E i \in DOMAIN LowerCase : LowerCase[i] = c
  THEN UpperCase[CHOOSE i \in DOMAIN LowerCase : LowerCase[i] = c]
  ELSE c

toUpperCase_Identity(s) == s

toUpperCase(s) == [i \in 1..Len(s) |-> Upper(s[i])]

WhiteSpace == {" ", "\t", "\n", "\r"}

LineTerminators == {"\n", "\r"}

RECURSIVE trimStart(_)
trimStart(s) ==
  IF Len(s) > 0 /\ s[1] \in WhiteSpace THEN trimStart(Tail(s)) ELSE s

RECURSIVE trimEnd(_)
trimEnd(s) ==
  IF Len(s) > 0 /\ s[Len(s)] \in WhiteSpace
  THEN trimEnd(SubSeq(s, 1, Len(s) - 1))
  ELSE s

trim(s) == trimEnd(trimStart(s))

slice(s, n) == SubSeq(s, 1, IF Len(s) < n THEN Len(s) ELSE n)

\* content.split(/\r?\n/)
RECURSIVE split(_)
split(content) ==
  IF \A i \in 1..Len(content) : content[i] # "\n"
  THEN <<content>>
  ELSE LET n == CHOOSE i \in 1..Len(content) :
                  /\ content[i] = "\n"
                  /\ \A j \in 1..(i - 1) : content[j] # "\n"
           e == IF n > 1 /\ content[n - 1] = "\r" THEN n - 2 ELSE n - 1
       IN  <<SubSeq(content, 1, e)>> \o split(SubSeq(content, n + 1, Len(content)))

DEBT_MARKERS ==
  << <<"T", "O", "D", "O">>, <<"F", "I", "X", "M", "E">>,
     <<"H", "A", "C", "K">>, <<"B", "U", "G">>, <<"N", "O", "T", "E">> >>

(***************************************************************************)
(* markerRegex.  The pattern is written in a template literal, which       *)
(* cooks its escapes before RegExp sees them: \w is w, \s is s, \- is -    *)
(* and \b is the character U+0008.  The expression that runs, under flag   *)
(* i, is  (?:^|[^w])(M1|M2|...)(?:U+0008)s*[:-]s*(.+)$ .                   *)
(***************************************************************************)
NotW(c) == Upper(c) # "W"

IsS(c) == Upper(c) = "S"

Delimiters == {":", "-"}

\* the marker m, escaped, matches the characters at k, whatever their case
MarkerAt(line, k, m) ==
  /\ k + Len(m) - 1 <= Len(line)
  /\ \A i \in 1..Len(m) : Upper(line[k + i - 1]) = Upper(m[i])

\* s*: the first position from j on that holds no s
RECURSIVE SkipS(_, _)
SkipS(line, j) ==
  IF j <= Len(line) /\ IsS(line[j]) THEN SkipS(line, j + 1) ELSE j

\* what follows the marker that ends before b: where group 2 starts, or 0
GroupAt(line, b) ==
  LET d == SkipS(line, b + 1)
      e == SkipS(line, d + 1)
      g == IF e <= Len(line) THEN e
           ELSE IF e > d + 1 THEN Len(line) ELSE 0
  IN  IF /\ b <= Len(line)
         /\ line[b] = BS
         /\ d <= Len(line)
         /\ line[d] \in Delimiters
         /\ g > 0
         /\ \A i \in g..Len(line) : line[i] \notin LineTerminators
      THEN g
      ELSE 0

MatchesAt(line, k, m) ==
  /\ k = 1 \/ NotW(line[k - 1])
  /\ MarkerAt(line, k, m)
  /\ GroupAt(line, k + Len(m)) > 0

NoMatch == [found |-> FALSE]

\* line.match(markerRegex): the leftmost match, the first alternative first
markerRegex(markers, line) ==
  LET starts == {k \in 1..(Len(line) + 1) :
                   \E i \in DOMAIN markers : MatchesAt(line, k, markers[i])}
  IN  IF starts = {} THEN NoMatch
      ELSE LET k == CHOOSE x \in starts : \A y \in starts : x <= y
               i == CHOOSE x \in DOMAIN markers :
                      /\ MatchesAt(line, k, markers[x])
                      /\ \A y \in DOMAIN markers :
                           MatchesAt(line, k, markers[y]) => x <= y
               b == k + Len(markers[i])
           IN  [found |-> TRUE,
                m1 |-> SubSeq(line, k, b - 1),
                m2 |-> SubSeq(line, GroupAt(line, b), Len(line))]

\* a path is the workspace root and the path below it
AbsPath(rel) == [root |-> "/ws", rel |-> rel]

getRelativePath(workspaceFolders, filePath) ==
  IF ~workspaceFolders THEN filePath ELSE filePath.rel

buildSuggestedDebt(workspaceFolders, filePath, lineNumber, marker, description) ==
  [title |-> slice(marker \o <<":", " ">> \o description, MaxTitleLength),
   description |-> description,
   filePath |-> getRelativePath(workspaceFolders, filePath),
   lineNumber |-> lineNumber,
   severity |-> "low",
   category |-> "code-quality",
   status |-> "open",
   priority |-> "normal",
   tags |-> <<marker>>]

RECURSIVE extractFrom(_, _, _, _, _)
extractFrom(workspaceFolders, filePath, lines, markers, index) ==
  IF index >= Len(lines) THEN <<>>
  ELSE LET line == lines[index + 1]
           match == markerRegex(markers, line)
           rest == extractFrom(workspaceFolders, filePath, lines, markers, index + 1)
       IN  IF ~match.found THEN rest
           ELSE LET marker == toUpperCase(match.m1)
                    description == trim(match.m2)
                    lineNumberOneBased == index + 1
                IN  <<[filePath |-> getRelativePath(workspaceFolders, filePath),
                       lineNumber |-> lineNumberOneBased,
                       marker |-> marker,
                       content |-> line,
                       suggestedDebt |->
                         buildSuggestedDebt(workspaceFolders, filePath,
                                            lineNumberOneBased, marker, description)]>>
                    \o rest

extractScanResults_ZeroBased(workspaceFolders, filePath, content, config) ==
  LET markers == IF Len(config.debtMarkers) > 0
                 THEN config.debtMarkers
                 ELSE DEBT_MARKERS
      r == extractFrom(workspaceFolders, filePath, split(content), markers, 0)
  IN  [i \in DOMAIN r |-> [r[i] EXCEPT !.lineNumber = @ - 1]]

extractScanResults(workspaceFolders, filePath, content, config) ==
  LET markers == IF Len(config.debtMarkers) > 0
                 THEN config.debtMarkers
                 ELSE DEBT_MARKERS
  IN  extractFrom(workspaceFolders, filePath, split(content), markers, 0)

\* the line of the specification's example
TodoLine ==
  <<"/", "/", " ", "T", "O", "D", "O", ":", " ", "f", "i", "x", " ", "n",
    "u", "l", "l", " ", "c", "h", "e", "c", "k">>

\* the FIXME line of the test file
FixmeLine ==
  <<" ", " ", "/", "/", " ", "F", "I", "X", "M", "E", ":", " ", "h", "a",
    "n", "d", "l", "e", " ", "e", "d", "g", "e", " ", "c", "a", "s", "e",
    "s">>

\* the lines of the test's sample file
HeaderLine ==
  <<"/", "/", " ", "T", "h", "i", "s", " ", "i", "s", " ", "a", " ", "f",
    "i", "l", "e">>

RefactorLine ==
  <<"/", "/", " ", "T", "O", "D", "O", ":", " ", "R", "e", "f", "a", "c",
    "t", "o", "r", " ", "t", "h", "i", "s", " ", "f", "u", "n", "c", "t",
    "i", "o", "n">>

DemoLine ==
  <<"f", "u", "n", "c", "t", "i", "o", "n", " ", "d", "e", "m", "o", "(",
    ")", " ", "{">>

ReturnLine ==
  <<" ", " ", "r", "e", "t", "u", "r", "n", " ", "1", ";">>

BraceLine ==
  <<"}">>

\* a lower-case marker followed by U+0008 and ':'
TodoBsLine ==
  <<"/", "/", " ", "t", "o", "d", "o", BS, ":", " ", "f", "i", "x", " ",
    "\t">>

\* marker, U+0008, an 's', '-' and only 's' after it
FixmeBsLine ==
  <<"x", " ", "F", "I", "X", "M", "E", BS, "s", "-", "s", "s">>

\* two marker forms on one line
TwoMarkerLine ==
  <<"N", "O", "T", "E", BS, ":", "a", " ", "B", "U", "G", BS, ":", "b">>

\* a marker form followed by blanks only
BlankBsLine ==
  <<"#", " ", "b", "u", "g", BS, ":", " ", " ">>

\* the marker glued to a 'w'
GluedLine ==
  <<"w", "H", "A", "C", "K", BS, ":", " ", "c">>

\* lines.join('\n')
RECURSIVE join(_, _)
join(lines, sep) ==
  IF Len(lines) = 0 THEN <<>>
  ELSE IF Len(lines) = 1 THEN lines[1]
  ELSE lines[1] \o sep \o join(Tail(lines), sep)

(***************************************************************************)
(* The workspace the scanner works on: the files, the configuration and    *)
(* what findFiles answers for a pattern.                                   *)
(***************************************************************************)
Uris == {"lib/c.ts", "src/a.ts", "src/b.ts"}

TextFile(content) == [exists |-> TRUE, readable |-> TRUE, content |-> content]

Unreadable == [exists |-> TRUE, readable |-> FALSE, content |-> <<>>]

Missing == [exists |-> FALSE, readable |-> FALSE, content |-> <<>>]

SCAN_PATTERNS == <<"**/*.{js,jsx,ts,tsx,py,java,cpp,c,cs,php,rb,go,rs}">>

EXCLUDE_PATTERNS ==
  <<"**/node_modules/**", "**/dist/**", "**/build/**", "**/.git/**">>

GlobMatches(pattern) ==
  CASE pattern = SCAN_PATTERNS[1] -> <<"lib/c.ts", "src/a.ts", "src/b.ts">>
    [] pattern = "src/**" -> <<"src/a.ts", "src/b.ts">>
    [] pattern = "**/b.*" -> <<"src/b.ts">>
    [] pattern = "lib/**" -> <<"lib/c.ts">>
    [] OTHER -> <<>>

Matches(pattern, uri) ==
  \E i \in DOMAIN GlobMatches(pattern) : GlobMatches(pattern)[i] = uri

\* vscode.workspace.findFiles(include, excludeGlob)
findFiles(fs, include, excludePatterns) ==
  SelectSeq(GlobMatches(include),
            LAMBDA uri : /\ fs[uri].exists
                         /\ \A i \in DOMAIN excludePatterns :
                              ~Matches(excludePatterns[i], uri))

\* the sample file of the test
SampleText ==
  join(<<HeaderLine, RefactorLine, DemoLine, FixmeLine, ReturnLine, BraceLine>>,
       <<"\n">>)

\* the same file with U+0008 after each marker
MarkedText == join(<<ReturnLine, TodoBsLine, BraceLine, FixmeBsLine>>, <<"\n">>)

MixedText ==
  join(<<TwoMarkerLine, GluedLine, TodoBsLine>>, <<"\r", "\n">>)

BlankText == join(<<BlankBsLine, FixmeBsLine>>, <<"\n">>)

FileSystems ==
  {[u \in Uris |-> CASE u = "src/a.ts" -> a [] u = "src/b.ts" -> b [] OTHER -> c] :
     a \in {TextFile(TodoLine), TextFile(SampleText), TextFile(MarkedText), Unreadable},
     b \in {TextFile(MixedText), Unreadable, Missing},
     c \in {TextFile(MixedText), TextFile(BlankText), Missing}}

ProjectConfigs ==
  [scanPatterns : {<<>>, <<"src/**">>, <<"**/b.*", "src/**", SCAN_PATTERNS[1]>>},
   excludePatterns : {<<>>, <<"lib/**">>},
   debtMarkers : {<<>>, << <<"f", "i", "x", "m", "e">> >>}]

scanFileUri_NoCatch(workspaceFolders, uri, fs, config) ==
  IF ~fs[uri].exists \/ ~fs[uri].readable
  THEN <<[filePath |-> uri, lineNumber |-> 0, marker |-> <<>>, content |-> <<>>,
          suggestedDebt |-> [title |-> <<>>]]>>
  ELSE extractScanResults(workspaceFolders, AbsPath(uri), fs[uri].content, config)

scanFileUri(workspaceFolders, uri, fs, config) ==
  IF ~fs[uri].exists \/ ~fs[uri].readable THEN <<>>
  ELSE extractScanResults(workspaceFolders, AbsPath(uri), fs[uri].content, config)

ScanLocals(workspaceFolders, config, fs) ==
  [workspaceFolders |-> workspaceFolders, config |-> config, fs |-> fs,
   cancelled |-> FALSE, include |-> 1, uriSet |-> {}, fileUris |-> <<>>,
   at |-> 1, results |-> <<>>, uri |-> ""]

InitScan ==
  /\ dir = TRUE
  /\ file = JsonFile(Stringify(Stamped(InitialData(0), 0)))
  /\ lock = NoLock
  /\ backups = {}
  /\ now = 0
  /\ isLocked = [p \in Procs |-> FALSE]
  /\ last = Last("none", "ok", BlankId, "")
  /\ pc = [p \in Procs |-> "idle"]
  /\ \E workspaceFolders \in BOOLEAN, config \in ProjectConfigs, fs \in FileSystems :
       loc = [p \in Procs |-> IF p = Self
                              THEN ScanLocals(workspaceFolders, config, fs)
                              ELSE NoLocals]
  /\ staleSeen = FALSE

ScanStep(label, locals, op) ==
  /\ pc' = [pc EXCEPT ![Self] = label]
  /\ loc' = [loc EXCEPT ![Self] = locals]
  /\ last' = IF label = "done" THEN Last(op, "ok", BlankId, "") ELSE last
  /\ UNCHANGED <<dir, file, lock, backups, now, isLocked, staleSeen>>

includePatterns(config) ==
  IF Len(config.scanPatterns) > 0 THEN config.scanPatterns ELSE SCAN_PATTERNS

excludePatterns(config) ==
  IF Len(config.excludePatterns) > 0 THEN config.excludePatterns ELSE EXCLUDE_PATTERNS

pushNew_All(fileUris, uris) == fileUris \o uris

\* uris pushed behind fileUris unless uriSet has them
RECURSIVE pushNew(_, _)
pushNew(fileUris, uris) ==
  IF Len(uris) = 0 THEN fileUris
  ELSE pushNew(IF \E i \in DOMAIN fileUris : fileUris[i] = uris[1]
               THEN fileUris
               ELSE Append(fileUris, uris[1]),
               Tail(uris))

scanLoop_DropOnCancel(l) ==
  IF l.cancelled THEN [l EXCEPT !.results = <<>>]
  ELSE IF l.at > Len(l.fileUris) THEN l
  ELSE [l EXCEPT !.results = @ \o scanFileUri(l.workspaceFolders, l.fileUris[l.at],
                                              l.fs, l.config),
                 !.at = @ + 1]

\* one turn of the loop over the files
scanLoop(l) ==
  IF l.at > Len(l.fileUris) \/ l.cancelled THEN l
  ELSE [l EXCEPT !.results = @ \o scanFileUri(l.workspaceFolders, l.fileUris[l.at],
                                              l.fs, l.config),
                 !.at = @ + 1]

\* scanFile(filePath)
ScanFile ==
  /\ pc[Self] = "idle"
  /\ \E uri \in Uris :
       LET l == loc[Self]
       IN  ScanStep("done",
                    [l EXCEPT !.uri = uri,
                              !.results = scanFileUri(l.workspaceFolders, uri,
                                                      l.fs, l.config)],
                    "scanFile")

\* scanWorkspace(token) up to the first findFiles
ScanWorkspace ==
  /\ pc[Self] = "idle"
  /\ IF ~loc[Self].workspaceFolders
     THEN ScanStep("done", loc[Self], "scanWorkspace")
     ELSE ScanStep("find", loc[Self], "scanWorkspace")

\* one include pattern: findFiles, which a cancelled token may cut short
FindFiles ==
  /\ pc[Self] = "find"
  /\ LET l == loc[Self]
         patterns == includePatterns(l.config)
         found == findFiles(l.fs, patterns[l.include], excludePatterns(l.config))
     IN  \E n \in 0..Len(found) :
           /\ n = Len(found) \/ l.cancelled
           /\ LET fileUris == pushNew(l.fileUris, SubSeq(found, 1, n))
              IN  ScanStep(IF l.include = Len(patterns) THEN "scan" ELSE "find",
                           [l EXCEPT !.include = @ + 1,
                                     !.fileUris = fileUris,
                                     !.uriSet = {fileUris[i] : i \in DOMAIN fileUris}],
                           "scanWorkspace")

\* the loop over the files: the next file, or the return
ScanNextFile ==
  /\ pc[Self] = "scan"
  /\ LET l == loc[Self]
     IN  ScanStep(IF l.at > Len(l.fileUris) \/ l.cancelled THEN "done" ELSE "scan",
                  scanLoop(l), "scanWorkspace")

\* the caller cancels the token
Cancel ==
  /\ pc[Self] \in {"idle", "find", "scan"}
  /\ ~loc[Self].cancelled
  /\ loc' = [loc EXCEPT ![Self].cancelled = TRUE]
  /\ UNCHANGED <<dir, file, lock, backups, now, isLocked, last, pc, staleSeen>>

NextScan ==
  \/ ScanFile
  \/ ScanWorkspace
  \/ FindFiles
  \/ ScanNextFile
  \/ Cancel

SpecScan == InitScan /\ [][NextScan]_vars

(***************************************************************************)
(* What the scanner's results are compared with.                           *)
(***************************************************************************)
TODO == DEBT_MARKERS[1]

FIXME == DEBT_MARKERS[2]

ScannedFile == loc[Self].fs[loc[Self].uri]

RECURSIVE ScansOf(_, _)
ScansOf(l, uris) ==
  IF Len(uris) = 0 THEN <<>>
  ELSE scanFileUri(l.workspaceFolders, uris[1], l.fs, l.config)
         \o ScansOf(l, Tail(uris))

RECURSIVE ReadableScans(_, _)
ReadableScans(l, uris) ==
  IF Len(uris) = 0 THEN <<>>
  ELSE (IF l.fs[uris[1]].readable
        THEN extractScanResults(TRUE, AbsPath(uris[1]), l.fs[uris[1]].content, l.config)
        ELSE <<>>)
         \o ReadableScans(l, Tail(uris))

RECURSIVE Flat(_, _, _)
Flat(l, patterns, i) ==
  IF i > Len(patterns) THEN <<>>
  ELSE findFiles(l.fs, patterns[i], excludePatterns(l.config)) \o Flat(l, patterns, i + 1)

RECURSIVE Distinct(_)
Distinct(uris) ==
  IF Len(uris) = 0 THEN <<>>
  ELSE LET front == Distinct(SubSeq(uris, 1, Len(uris) - 1))
           u == uris[Len(uris)]
       IN  IF \E i \in DOMAIN front : front[i] = u THEN front ELSE Append(front, u)

Enumerated(l) == Distinct(Flat(l, includePatterns(l.config), 1))

IsPrefix(s, t) == Len(s) <= Len(t) /\ s = SubSeq(t, 1, Len(s))

WorkspaceScanDone == pc[Self] = "done" /\ last.op = "scanWorkspace"

\* C23: with the default markers, scanning the text '// TODO: fix null
\* check' yields exactly one match, with marker TODO, description 'fix null
\* check' and suggested title 'TODO: fix null check'; scanning the sample
\* file, which has one TODO line and one FIXME line, yields a match for each.
C23_SpecExample ==
  (last.op = "scanFile" /\ loc[Self].config.debtMarkers = <<>>)
    => LET r == loc[Self].results
       IN  /\ ScannedFile = TextFile(TodoLine)
                => /\ Len(r) = 1
                   /\ r[1].marker = TODO
                   /\ r[1].suggestedDebt.description = SubSeq(TodoLine, 10, 23)
                   /\ r[1].suggestedDebt.title = SubSeq(TodoLine, 4, 23)
           /\ ScannedFile = TextFile(SampleText)
                => /\ Len(r) = 2
                   /\ r[1].marker = TODO /\ r[1].lineNumber = 2
                   /\ r[2].marker = FIXME /\ r[2].lineNumber = 4

\* C24: scanWorkspace looks at the token only between two files, and when
\* it sees the cancellation it returns, without error, the results it has;
\* at every moment of the loop and at the return the results are the
\* complete results of the first k enumerated files for some k, a prefix of
\* what the uncancelled scan returns.
C24_CancelledPrefix ==
  /\ []((pc[Self] = "scan" \/ WorkspaceScanDone)
          => LET l == loc[Self]
             IN  /\ \E k \in 0..Len(l.fileUris) :
                      l.results = ScansOf(l, SubSeq(l.fileUris, 1, k))
                 /\ l.workspaceFolders
                      => IsPrefix(l.results, ScansOf(l, Enumerated(l))))
  /\ [][(pc[Self] = "scan" /\ loc[Self].cancelled)
          => /\ pc'[Self] = "done"
             /\ last' = Last("scanWorkspace", "ok", BlankId, "")
             /\ loc'[Self].results = loc[Self].results]_vars

\* C24 witness: the scan was cancelled after the first file had given
\* results and before the last file was scanned.
C24_Witness ==
  /\ WorkspaceScanDone
  /\ loc[Self].cancelled
  /\ Len(loc[Self].results) > 0
  /\ Len(loc[Self].results) < Len(ScansOf(loc[Self], Enumerated(loc[Self])))

\* C25: an uncancelled scanWorkspace returns the results of every distinct
\* enumerated file once, in the order in which the include patterns first
\* enumerated the files; without a workspace folder, or when no file
\* matches, it returns the empty sequence.
C25_EachFileOnce ==
  (WorkspaceScanDone /\ ~loc[Self].cancelled)
    => LET l == loc[Self]
       IN  IF ~l.workspaceFolders \/ Enumerated(l) = <<>>
           THEN l.results = <<>>
           ELSE /\ l.fileUris = Enumerated(l)
                /\ l.results = ScansOf(l, Enumerated(l))

\* C25 witness: three include patterns, each matching src/b.ts, gave three
\* files, b first, and every file gave its two results once.
C25_Witness ==
  /\ WorkspaceScanDone
  /\ ~loc[Self].cancelled
  /\ Len(loc[Self].config.scanPatterns) = 3
  /\ Len(loc[Self].fileUris) = 3
  /\ loc[Self].fileUris[1] = "src/b.ts"
  /\ Len(loc[Self].results) = 6

\* C26: an uncancelled scanWorkspace over files of which some cannot be
\* read returns, without error, exactly the results of the readable files
\* in enumeration order.
C26_UnreadableSkipped ==
  (WorkspaceScanDone /\ ~loc[Self].cancelled /\ loc[Self].workspaceFolders)
    => /\ last.err = "ok"
       /\ loc[Self].results = ReadableScans(loc[Self], loc[Self].fileUris)

\* C26 witness: the first enumerated file could not be read and the scan
\* returned the results of the second.
C26_Witness ==
  /\ WorkspaceScanDone
  /\ ~loc[Self].cancelled
  /\ Len(loc[Self].fileUris) >= 2
  /\ loc[Self].fs[loc[Self].fileUris[1]] = Unreadable
  /\ Len(loc[Self].results) > 0
  /\ loc[Self].results[1].filePath = loc[Self].fileUris[2]

\* C27: the scan of one file yields matches in strictly increasing line
\* order, so at most one per line, and each match's lineNumber is the
\* 1-based index of its line, between 1 and the number of lines.
C27_OnePerLine ==
  last.op = "scanFile"
    => LET r == loc[Self].results
           content == ScannedFile.content
           count == Cardinality({i \in DOMAIN content : content[i] = "\n"}) + 1
       IN  /\ \A i \in DOMAIN r :
                /\ r[i].lineNumber \in 1..count
                /\ r[i].content = split(content)[r[i].lineNumber]
                /\ r[i].suggestedDebt.lineNumber = r[i].lineNumber
           /\ \A i, j \in DOMAIN r : i < j => r[i].lineNumber < r[j].lineNumber

\* C27 witness: a file whose first line holds two marker forms and whose
\* third line holds one gave two matches, at lines 1 and 3.
C27_Witness ==
  /\ last.op = "scanFile"
  /\ ScannedFile = TextFile(MixedText)
  /\ Len(loc[Self].results) = 2
  /\ loc[Self].results[1].lineNumber = 1
  /\ loc[Self].results[2].lineNumber = 3

(***************************************************************************)
(* SpecLock: the two instances at the lock alone.  An instance inside      *)
(* readData or writeData has run acquireLock and has not yet reached the   *)
(* finally block; the clock reads the values around the threshold.         *)
(***************************************************************************)
ClockReadings == {0, 1, StaleThreshold - 1, StaleThreshold, StaleThreshold + 1}

MarkerAge(l, t) == IF l.exists THEN t - l.mtime ELSE -1

Advance ==
  /\ \E t \in ClockReadings : t > now /\ now' = t
  /\ last' = Last("tick", "ok", BlankId, "")
  /\ UNCHANGED <<dir, file, lock, backups, isLocked, pc, loc, staleSeen>>

\* readData or writeData reaches acquireLock
AcquireLock(p) ==
  /\ pc[p] = "idle"
  /\ LET r == acquireLock(W(p), now, p)
     IN  EndsKeeping(p, r, IF p = Self THEN "acquireLock" ELSE "acquireLock.other",
                     [err |-> r.err, age |-> MarkerAge(lock, now)])

\* readData or writeData reaches its finally block
ReleaseLock(p) ==
  /\ pc[p] = "idle"
  /\ EndsKeeping(p, Outcome("ok", releaseLock(W(p)), NoData),
                 IF p = Self THEN "releaseLock" ELSE "releaseLock.other",
                 [err |-> "ok", age |-> MarkerAge(lock, now)])

NextLock ==
  \/ \E p \in Procs : AcquireLock(p)
  \/ \E p \in Procs : ReleaseLock(p)
  \/ Advance

SpecLock == InitConc /\ [][NextLock]_vars

\* C28: an acquireLock that starts with isLocked false fails with the lock
\* error, changing nothing, exactly when a marker exists whose age is below
\* StaleThreshold; without a marker, or with a marker of that age or more,
\* the marker is this instance's new one and isLocked is true.
C28_AcquireRule ==
  [][(last'.op = "acquireLock" /\ ~isLocked[Self] /\ dir)
       => IF lock.exists /\ now - lock.mtime < StaleThreshold
          THEN /\ last'.err = "locked"
               /\ lock' = lock
               /\ ~isLocked'[Self]
          ELSE /\ last'.err = "ok"
               /\ lock' = Marker(now, Self)
               /\ isLocked'[Self]]_vars

\* C28 witness: the marker of the other instance was exactly StaleThreshold
\* old, and the instance has replaced it.
C28_Witness ==
  /\ last.op = "acquireLock"
  /\ last.err = "ok"
  /\ loc[Self].age = StaleThreshold
  /\ lock = Marker(now, Self)
  /\ isLocked[Self]
  /\ isLocked[Other]

\* C30: the releaseLock of an instance leaves in place a marker that the
\* other instance created.
C30_ReleaseOwnMarker ==
  [][(last'.op = "releaseLock" /\ lock.exists /\ lock.owner # Self)
       => lock' = lock]_vars

(***************************************************************************)
(* SpecRace: two instances each run transitionStatus once on the same      *)
(* entry.  The three storage calls of transitionStatus (getDebt, and the   *)
(* readData and writeData of updateDebt) are steps; each takes and         *)
(* releases the lock on its own.                                           *)
(***************************************************************************)
RaceId == MkDebtId(0, "i")

InitRace ==
  /\ dir = TRUE
  /\ \E status \in Statuses :
       file = JsonFile(Stringify(Stamped(
                MkData(<<[CreatedAtZero("i", 1) EXCEPT !.status = status]>>,
                       MkMetadata(0, 0), DefaultSettings), 0)))
  /\ lock = NoLock
  /\ backups = {}
  /\ now = 0
  /\ isLocked = [p \in Procs |-> FALSE]
  /\ last = Last("initialize", "ok", BlankId, "")
  /\ pc = [p \in Procs |-> "idle"]
  /\ loc = [p \in Procs |-> NoLocals]
  /\ staleSeen = FALSE

RaceStep(p, w, label, locals) ==
  /\ dir' = w.dir
  /\ file' = w.file
  /\ lock' = w.lock
  /\ backups' = w.backups
  /\ isLocked' = [isLocked EXCEPT ![p] = w.isLocked]
  /\ pc' = [pc EXCEPT ![p] = label]
  /\ loc' = [loc EXCEPT ![p] = locals]
  /\ last' = IF label = "done"
             THEN Last("transitionStatus", locals.err, RaceId, locals.to)
             ELSE last
  /\ UNCHANGED <<now, staleSeen>>

\* transitionStatus: getDebt and the test of the transition
RaceGet(p) ==
  /\ pc[p] = "idle"
  /\ \E newStatus \in Statuses :
       LET g == getDebt(RaceId, W(p), now, p)
           allowed == IF g.ret[1].status \in DOMAIN allowedStatusTransitions
                      THEN allowedStatusTransitions[g.ret[1].status]
                      ELSE <<>>
           err == IF ~g.ok THEN g.err
                  ELSE IF g.ret = <<>> THEN "debt-not-found"
                  ELSE IF ~Includes(allowed, newStatus) THEN "invalid-transition"
                  ELSE "ok"
       IN  RaceStep(p, g.w, IF err = "ok" THEN "read" ELSE "done",
                    [err |-> err, to |-> newStatus])

\* updateDebt: readData, findIndex and the merge
RaceRead(p) ==
  /\ pc[p] = "read"
  /\ LET r == readData(W(p), now, p)
         debtIndex == FindIndex(r.ret.debts, RaceId)
         updatedDebt == Merge(Merge(r.ret.debts[debtIndex], [status |-> loc[p].to]),
                              [updatedAt |-> DateObj(now)])
     IN  IF ~r.ok THEN RaceStep(p, r.w, "done", [err |-> r.err, to |-> loc[p].to])
         ELSE IF debtIndex = 0
           THEN RaceStep(p, r.w, "done", [err |-> "debt-not-found", to |-> loc[p].to])
         ELSE RaceStep(p, r.w, "write",
                       [err |-> "ok", to |-> loc[p].to,
                        data |-> [r.ret EXCEPT !.debts[debtIndex] = updatedDebt]])

\* updateDebt: writeData
RaceWrite(p) ==
  /\ pc[p] = "write"
  /\ LET wr == writeData(loc[p].data, W(p), now, p)
     IN  RaceStep(p, wr.w, "done", [err |-> wr.err, to |-> loc[p].to])

NextRace ==
  \/ \E p \in Procs : RaceGet(p)
  \/ \E p \in Procs : RaceRead(p)
  \/ \E p \in Procs : RaceWrite(p)

SpecRace == InitRace /\ [][NextRace]_vars

\* C29: when both instances' transitionStatus calls succeed, every write
\* that changes the persisted status of the entry makes a whitelisted
\* transition from the status the document held just before the write.
C29_WriteIsWhitelisted ==
  [][(/\ \A p \in Procs : pc'[p] = "done" /\ loc'[p].err = "ok"
      /\ \E p \in Procs : pc[p] = "write"
      /\ Debts(file')[1].status # Debts(file)[1].status)
       => Debts(file')[1].status \in WhitelistRow(Debts(file)[1].status)]_vars

(***************************************************************************)
(* SpecSeed: two instances start on a workspace without storage.  Each     *)
(* runs initialize, whose existence tests, seeding write and validation    *)
(* are steps, and then calls addDebt; a storage call is one step.          *)
(***************************************************************************)
SeedStep(p, w, label, op, err) ==
  /\ dir' = w.dir
  /\ file' = w.file
  /\ lock' = w.lock
  /\ backups' = w.backups
  /\ isLocked' = [isLocked EXCEPT ![p] = w.isLocked]
  /\ pc' = [pc EXCEPT ![p] = label]
  /\ last' = IF label \in {"ready", "failed"} THEN Last(op, err, BlankId, "") ELSE last
  /\ UNCHANGED <<now, loc, staleSeen>>

\* initialize: mkdirSync, and the test fs.existsSync(this.storageFile)
SeedCheck(p) ==
  /\ pc[p] = "idle"
  /\ SeedStep(p, [W(p) EXCEPT !.dir = TRUE],
              IF file.exists THEN "validate" ELSE "seed", "initialize", "ok")

\* initialize: writeData(initialData)
SeedWrite(p) ==
  /\ pc[p] = "seed"
  /\ LET wr == writeData(InitialData(now), W(p), now, p)
     IN  SeedStep(p, wr.w, IF wr.ok THEN "validate" ELSE "failed", "initialize", wr.err)

\* initialize: validateStorageFile
SeedValidate(p) ==
  /\ pc[p] = "validate"
  /\ LET v == validateStorageFile(W(p), now)
     IN  SeedStep(p, v.w, IF v.ok THEN "ready" ELSE "failed", "initialize", v.err)

\* addDebt of an initialized instance
SeedAdd(p) ==
  /\ pc[p] = "ready"
  /\ ~Full
  /\ \E random \in RandomSuffixes :
       LET r == addDebt(DebtInput(GoodTitle, p, "open"), random, W(p), now, p)
       IN  SeedStep(p, r.w, "ready", "addDebt", r.err)

NextSeed ==
  \/ \E p \in Procs : SeedCheck(p)
  \/ \E p \in Procs : SeedWrite(p)
  \/ \E p \in Procs : SeedValidate(p)
  \/ \E p \in Procs : SeedAdd(p)
  \/ Tick

SpecSeed == Init /\ [][NextSeed]_vars

\* C31: no step of initialize replaces a document that holds a persisted
\* entry by a document without it.
C31_SeedKeepsEntries ==
  [][\A p \in Procs :
       (pc[p] \in {"idle", "seed", "validate"} /\ pc'[p] # pc[p] /\ IsValid(file))
         => /\ IsValid(file')
            /\ \A i \in DOMAIN Debts(file) :
                 \E j \in DOMAIN Debts(file') : Debts(file')[j].id = Debts(file)[i].id]_vars

\* C32: the validation read of initialize, like every read and write of the
\* document, happens while the reading instance holds the lock.
C32_ValidationReadLocked ==
  [][\A p \in Procs :
       (pc[p] = "validate" /\ pc'[p] # "validate" /\ file.exists)
         => /\ isLocked[p]
            /\ lock.exists
            /\ lock.owner = p]_vars

(***************************************************************************)
(* SpecReenter: SpecLock, and calls of readData and writeData that arrive  *)
(* while the instance is inside another storage call.                      *)
(***************************************************************************)
ReenterRead(p) ==
  /\ pc[p] = "idle"
  /\ LET r == readData(W(p), now, p)
     IN  EndsKeeping(p, r, IF p = Self THEN "readData" ELSE "readData.other",
                     [err |-> r.err, age |-> MarkerAge(lock, now)])

ReenterWrite(p) ==
  /\ pc[p] = "idle"
  /\ LET r == writeData(InitialData(now), W(p), now, p)
     IN  EndsKeeping(p, r, IF p = Self THEN "writeData" ELSE "writeData.other",
                     [err |-> r.err, age |-> MarkerAge(lock, now)])

NextReenter ==
  \/ NextLock
  \/ \E p \in Procs : ReenterRead(p)
  \/ \E p \in Procs : ReenterWrite(p)

SpecReenter == InitConc /\ [][NextReenter]_vars

\* C33: a readData or writeData called while isLocked is true fails with
\* 'Storage is already locked' and leaves the marker and isLocked as they
\* were.
C33_ReentryKeepsLock ==
  [][(last'.op \in {"readData", "writeData"} /\ isLocked[Self])
       => /\ last'.err = "already-locked"
          /\ lock' = lock
          /\ isLocked'[Self]]_vars

(***************************************************************************)
(* The scanner's candidate records                                         *)
(***************************************************************************)
\* a text of the scanner as createDebt's validation sees it: its length,
\* and whether it is blank
AsStr(s) == Str(Len(s), \A i \in DOMAIN s : s[i] \in WhiteSpace)

\* the candidate record handed to createDebt
AsEntry(d) ==
  [title |-> AsStr(d.title),
   description |-> AsStr(d.description),
   filePath |-> IF d.filePath = "" THEN EmptyStr ELSE GoodPath,
   lineNumber |-> d.lineNumber,
   status |-> d.status,
   absent |-> {}]

ScanReturned == pc[Self] = "done" /\ last.op \in {"scanFile", "scanWorkspace"}

\* C34: every candidate record the scanner returns passes the field
\* validation of createDebt: title and description are non-empty and at
\* most 100 and 500 characters, filePath is non-empty, lineNumber is at
\* least 1.
C34_CandidatesValid ==
  (ScanReturned /\ loc[Self].workspaceFolders)
    => \A i \in DOMAIN loc[Self].results :
         LET d == loc[Self].results[i].suggestedDebt
         IN  /\ validateDebtEntry(AsEntry(d)) = {}
             /\ d.lineNumber >= 1

\* C37: every candidate record carries severity low, category code-quality,
\* status open, priority normal and the one tag marker, and marker is a
\* configured keyword in upper case, whatever its case in the line.
C37_CandidateDefaults ==
  ScanReturned
    => \A i \in DOMAIN loc[Self].results :
         LET r == loc[Self].results[i]
             d == r.suggestedDebt
             markers == IF loc[Self].config.debtMarkers = <<>>
                        THEN DEBT_MARKERS
                        ELSE loc[Self].config.debtMarkers
         IN  /\ d.severity = "low"
             /\ d.category = "code-quality"
             /\ d.status = "open"
             /\ d.priority = "normal"
             /\ d.tags = <<r.marker>>
             /\ \A k \in DOMAIN r.marker :
                  ~\E n \in DOMAIN LowerCase : LowerCase[n] = r.marker[k]
             /\ \E m \in DOMAIN markers :
                  /\ Len(markers[m]) = Len(r.marker)
                  /\ \A k \in DOMAIN r.marker : Upper(markers[m][k]) = r.marker[k]

\* C37 witness: the line '// todo...' of the file gave a candidate with
\* marker and tag TODO.
C37_Witness ==
  /\ ScanReturned
  /\ last.op = "scanFile"
  /\ Len(loc[Self].results) = 2
  /\ loc[Self].results[1].content = TodoBsLine
  /\ loc[Self].results[1].marker = TODO
  /\ loc[Self].results[1].suggestedDebt.tags = <<TODO>>
  /\ loc[Self].results[1].suggestedDebt.severity = "low"

(***************************************************************************)
(* Claims on the status machine, checked under SpecLife                    *)
(***************************************************************************)
\* C35: transitionStatus(id, s) on an entry whose status is s fails with
\* an invalid-transition error and leaves the document, the entry's
\* updatedAt included, unchanged.
C35_SelfTransitionRefused ==
  [][(/\ last'.op = "transitionStatus"
      /\ IsValid(file)
      /\ FindIndex(Debts(file), last'.id) # 0
      /\ Debts(file)[FindIndex(Debts(file), last'.id)].status = last'.to)
       => /\ last'.err = "invalid-transition"
          /\ file' = file]_vars

\* C35 witness: after the clock has advanced, a transition to review of an
\* entry in review has been refused, and the entry's updatedAt is still 0.
C35_Witness ==
  /\ last.op = "transitionStatus"
  /\ last.err = "invalid-transition"
  /\ last.to = "review"
  /\ now > 0
  /\ \E i \in DOMAIN Debts(file) :
       /\ Debts(file)[i].id = last.id
       /\ Debts(file)[i].status = "review"
       /\ Debts(file)[i].updatedAt.t < now

\* the statuses the table leads to from the set S in at most n steps
RECURSIVE ReachFrom(_, _)
ReachFrom(S, n) ==
  IF n = 0 THEN S
  ELSE ReachFrom(S \cup {t \in Statuses :
                           \E s \in S : Includes(allowedStatusTransitions[s], t)},
                 n - 1)

\* C36: from every status the table leads to every other status in
\* finitely many steps and to open in one step, and each step of the table
\* is a transitionStatus call that succeeds and persists the new status.
C36_NoTrappingStatus ==
  /\ [](\A a \in Statuses :
          /\ ReachFrom({a}, Cardinality(Statuses)) = Statuses
          /\ a # "open" => Includes(allowedStatusTransitions[a], "open"))
  /\ [][(/\ last'.op = "transitionStatus"
         /\ Available(Self)
         /\ FindIndex(Debts(file), last'.id) # 0
         /\ Includes(allowedStatusTransitions[
                       Debts(file)[FindIndex(Debts(file), last'.id)].status],
                     last'.to))
          => /\ last'.err = "ok"
             /\ Debts(file')[FindIndex(Debts(file), last'.id)].status = last'.to]_vars

\* C36 witness: an entry that had been moved away from open has been moved
\* back to open by a successful call.
C36_Witness ==
  /\ last.op = "transitionStatus"
  /\ last.err = "ok"
  /\ last.to = "open"
  /\ \E i \in DOMAIN Debts(file) :
       /\ Debts(file)[i].id = last.id
       /\ Debts(file)[i].status = "open"
       /\ Debts(file)[i].updatedAt.t > 0

====
